---- MODULE Spec2Model ----
(***************************************************************************)
(* A model of asyncslot's event-loop bridge (src/src/asyncslot/            *)
(* _base_events.py): AsyncSlotBaseEventLoop driven by a Qt event loop      *)
(* through a queued notifier, with the AsyncSlotSelectable protocol and    *)
(* its background wait worker.                                             *)
(*                                                                         *)
(* The controlling thread is one process (pc); the selector's worker       *)
(* thread is a second one (it exists while sel_state = "BUSY").            *)
(***************************************************************************)
EXTENDS Integers, Sequences, FiniteSets, TLC

\* ------------------------------------------------------------- bounds
MaxRuns == 2        \* enter() calls (notifiers created)
MaxTicks == 3       \* ticks per run
MaxCalls == 2       \* calls user code makes on the loop (call_soon, call_later,
                    \* run_task, a failing enter)
MaxReady == 2       \* length of the ready queue when call_soon is accepted
MaxTimers == 1      \* timers pending in the scheduled heap
MaxTasks == 3       \* tasks whose steps run in the eager-scheduling model
MaxWaits == 2       \* select() calls that yield, in the model of the selector alone
MaxEmits == 3       \* emissions of the signal given to asyncsignal
MaxAwaits == 2      \* asyncsignal() calls on that signal, one after the other
MaxProg == 2        \* handles scheduled before run_forever, in the model of the mock selector
MaxBatches == 3     \* iterations of _run_once per run in that model

\* ------------------------------------------------------------- constants
\* Handles placed in the ready queue, by what their callback does:
\*   "append"      appends to the log and returns
\*   "append_stop" appends to the log, then calls loop.stop()
\*   "raise"       raises an exception that escapes _run_once
\*                 (SystemExit / KeyboardInterrupt)
\* The log names the callbacks in the order they ran.
Callbacks == {"append", "append_stop", "raise"}

\* The handle call_soon leaves in the ready queue for a task started by
\* run_task: it has been run and cancelled (lines 358-361), and _run_once
\* skips a cancelled handle.  "task_step" is a handle of Task.__step that was
\* not cancelled.
EagerHandle_Live == "task_step"
EagerHandle == "cancelled"

\* Exit codes an external QCoreApplication.exit()/quit() gives the nested loop.
ExtCodes == {0, 2}

\* The connection made by _AsyncSlotNotifierObject.__init__.
ConnectionType_Auto == "AutoConnection"
ConnectionType == "QueuedConnection"

\* Exit codes the tick handler gives QEventLoop.exit().
ExitCodeOnError_Zero == 1 - 1
ExitCodeOnError == 1
ExitCodeOnStop_One == 0 + 1
ExitCodeOnStop == 0

VARIABLES
    pc,                 \* controlling thread: "idle" (outside any loop), "exec" (in the
                        \* Qt loop, between events), "batch"/"yielded" (in the tick
                        \* handler), "exit_wait" (in __exit__, blocked in set_notifier)
    depth,              \* active invocations of __process_asyncio_events
    closed,             \* BaseEventLoop._closed
    stopping,           \* BaseEventLoop._stopping
    thread_id,          \* BaseEventLoop._thread_id is not None (is_running())
    running_loop,       \* events._get_running_loop(): "none", "self" or "other"
    qt_event_loop,      \* __qt_event_loop: "None" or "QEventLoop"
    notifier,           \* __notifier: 0 (None) or the notifier's id
    blocked_in_select,  \* __blocked_in_select
    run_once_error,     \* __run_once_error: 0 (None), or the error, named by the run
                        \* (notifier id) whose tick raised it
    ready,              \* BaseEventLoop._ready
    scheduled,          \* number of timers in BaseEventLoop._scheduled
    todo,               \* handles of the current batch still to run (ntodo - i)
    live,               \* notifiers whose _callback is not None
    nextId,             \* next notifier id
    queue,              \* Qt's posted-event queue: queued _notified emissions
    sel_state,          \* AsyncSlotSelectable: "IDLE", "BUSY", "CLOSED"
    sel_notifier,       \* the notifier installed on the selector (0: None)
    sel_timeout,        \* timeout of the wait the worker performs ("zero" when it
                        \* performs none)
    ioReady,            \* some I/O (the self-pipe included) is ready to be selected
    exit_code,          \* QEventLoop exit request: -1 (none) or the code
    exit_by,            \* who asked: "none", "tick", "foreign"
    result,             \* outcome of the last run_forever / tick seen by its caller
    sent,               \* notify() calls on the current notifier
    ticks,              \* ticks started in the current run
    log,                \* callbacks run since the last enter()
    calls,              \* calls counted against MaxCalls
    last_select,        \* how the last select() behaved: "none", "sync" (returned at
                        \* once), "yield" (AsyncSlotYield), "block" (blocking select)
    stop_called,        \* stop() was called since the last __exit__
    stop_at_enter,      \* _stopping as __enter__ found it
    error_raised,       \* the error run_forever raised last: 0, or the run it is from
    other_running,      \* another bridge of this thread is between its enter() and exit()
    enter_error,        \* what the last failed enter() raised: "none", "ClosedError",
                        \* "AlreadyRunningError" (reset by a successful enter())
    tasks,              \* run_task() calls so far
    steps,              \* executions of the first step of a task started by run_task()
    call_soon_eagerly,  \* __call_soon_eagerly
    current_task,       \* asyncio.tasks.current_task(loop): 0 (None) or the task's id
    frames,             \* call stack of the controlling thread inside run_task /
                        \* call_soon / Task.__step, innermost last
    exc,                \* a BaseException is propagating out of the innermost frame
    enter_task_error,   \* _enter_task found another task current (its RuntimeError)
    last_call_soon,     \* what the last call_soon did with its handle: "none",
                        \* "eager" (ran it at once), "deferred" (left it queued)
    sel_call,           \* the selector call its caller is blocked in: "none",
                        \* "select" (blocking select) or "set_notifier"
    sel_new,            \* the argument of the set_notifier call that is blocked
    sel_op,             \* the last selector call made: "none", "select(0)",
                        \* "select(t)", "select(None)", "set_notifier", "close"
    sel_out,            \* outcome of the last selector call: "none", "returned",
                        \* "yield" (AsyncSlotYield), "ClosedError"
    signals,            \* the notifiers the selector's workers signalled, in order
    waits,              \* select() calls that yielded
    wait_notifier,      \* the notifier that was installed when the last wait started
    aw,                 \* the asyncsignal coroutine: "init" (not called), "awaiting"
                        \* (suspended at line 52), "returned", "raised"
    fut,                \* its future: "pending", "result", "cancelled"
    fut_result,         \* the future's result: 0 (not set), or the emission it came
                        \* from (the k-th emission carries the arguments k)
    slot,               \* the variable slot is not None (the _QiSlotObject is alive)
    connected,          \* the connection made at line 51 exists
    sender_alive,       \* the object whose signal is awaited exists
    emits,              \* emissions of the signal so far
    connect_at,         \* emits when the connection was made
    handler_calls,      \* invocations of handler for the current connection
    set_calls,          \* set_result calls on the current future
    sig_error,          \* handler raised (InvalidStateError from set_result)
    awaits,             \* asyncsignal() calls so far
    mk_pc,              \* the bridge run with the mock selector: "idle", "exec",
                        \* "batch" (inside _run_once), "exited" (exit(0) called),
                        \* "done" (run_forever returned)
    mk_ready,           \* its _ready queue
    mk_todo,            \* handles left in the batch of its current _run_once
    mk_log,             \* <<tick, callback>> for every callback it ran, in order
    mk_ticks,           \* ticks it has started
    mk_stopping,        \* its _stopping
    mk_posted,          \* its notifications posted and not yet dispatched
    aio_pc,             \* BaseEventLoop.run_forever on the same input: "idle",
                        \* "loop" (top of the while), "batch", "done"
    aio_ready,          \* its _ready queue
    aio_todo,           \* handles left in the batch of its current _run_once
    aio_log,            \* <<iteration, callback>> for every callback it ran
    aio_iter,           \* _run_once calls it has started
    aio_stopping        \* its _stopping

vars == <<pc, depth, closed, stopping, thread_id, running_loop, qt_event_loop,
          notifier, blocked_in_select, run_once_error, ready, scheduled, todo,
          live, nextId, queue, sel_state, sel_notifier, sel_timeout, ioReady,
          exit_code, exit_by, result, sent, ticks, log, calls, last_select,
          stop_called, stop_at_enter, error_raised, other_running, enter_error,
          tasks, steps, call_soon_eagerly, current_task, frames, exc,
          enter_task_error, last_call_soon, sel_call, sel_new, sel_op, sel_out,
          signals, waits, wait_notifier, aw, fut, fut_result, slot, connected,
          sender_alive, emits, connect_at, handler_calls, set_calls, sig_error,
          awaits, mk_pc, mk_ready, mk_todo, mk_log, mk_ticks, mk_stopping,
          mk_posted, aio_pc, aio_ready, aio_todo, aio_log, aio_iter,
          aio_stopping>>

bridgeVars == <<closed, stopping, thread_id, running_loop, qt_event_loop,
                notifier, blocked_in_select, run_once_error>>
selVars == <<sel_state, sel_notifier, sel_timeout>>
exitVars == <<exit_code, exit_by>>
histVars == <<stop_called, stop_at_enter, error_raised>>
envVars == <<other_running, enter_error>>
eagerVars == <<call_soon_eagerly, current_task, frames, exc, enter_task_error,
               last_call_soon>>
selCallVars == <<sel_call, sel_new, sel_op, sel_out, signals, waits,
                 wait_notifier>>
sigVars == <<aw, fut, fut_result, slot, connected, sender_alive, emits,
             connect_at, handler_calls, set_calls, sig_error, awaits>>
mockVars == <<mk_pc, mk_ready, mk_todo, mk_log, mk_ticks, mk_stopping, mk_posted>>
aioVars == <<aio_pc, aio_ready, aio_todo, aio_log, aio_iter, aio_stopping>>
subVars == <<eagerVars, selCallVars, sigVars, mockVars, aioVars>>
taskVars == <<tasks, steps, subVars>>
loopVars == <<selCallVars, sigVars, mockVars, aioVars, pc, depth, closed, stopping, thread_id, running_loop, qt_event_loop,
              notifier, blocked_in_select, run_once_error, ready, scheduled, todo,
              live, nextId, queue, sel_state, sel_notifier, sel_timeout, ioReady,
              exit_code, exit_by, result, sent, ticks, log, calls, last_select,
              stop_called, stop_at_enter, error_raised, other_running, enter_error>>

\* ------------------------------------------------------------- state after construction
Init ==
    /\ pc = "idle"
    /\ depth = 0
    /\ closed = FALSE
    /\ stopping = FALSE
    /\ thread_id = FALSE
    /\ running_loop = "none"
    /\ qt_event_loop = "None"
    /\ notifier = 0
    /\ blocked_in_select = FALSE
    /\ run_once_error = 0
    /\ ready = <<>>
    /\ scheduled = 0
    /\ todo = 0
    /\ live = {}
    /\ nextId = 1
    /\ queue = <<>>
    /\ sel_state = "IDLE"
    /\ sel_notifier = 0
    /\ sel_timeout = "zero"
    /\ ioReady = FALSE
    /\ exit_code = -1
    /\ exit_by = "none"
    /\ result = "none"
    /\ sent = 0
    /\ ticks = 0
    /\ log = <<>>
    /\ calls = 0
    /\ last_select = "none"
    /\ stop_called = FALSE
    /\ stop_at_enter = FALSE
    /\ error_raised = 0
    /\ other_running = FALSE
    /\ enter_error = "none"
    /\ tasks = 0
    /\ steps = 0
    /\ call_soon_eagerly = FALSE
    /\ current_task = 0
    /\ frames = <<>>
    /\ exc = FALSE
    /\ enter_task_error = FALSE
    /\ last_call_soon = "none"
    /\ sel_call = "none"
    /\ sel_new = 0
    /\ sel_op = "none"
    /\ sel_out = "none"
    /\ signals = <<>>
    /\ waits = 0
    /\ wait_notifier = 0
    /\ aw = "init"
    /\ fut = "pending"
    /\ fut_result = 0
    /\ slot = FALSE
    /\ connected = FALSE
    /\ sender_alive = TRUE
    /\ emits = 0
    /\ connect_at = 0
    /\ handler_calls = 0
    /\ set_calls = 0
    /\ sig_error = FALSE
    /\ awaits = 0
    /\ mk_pc = "idle"
    /\ mk_ready = <<>>
    /\ mk_todo = 0
    /\ mk_log = <<>>
    /\ mk_ticks = 0
    /\ mk_stopping = FALSE
    /\ mk_posted = 0
    /\ aio_pc = "idle"
    /\ aio_ready = <<>>
    /\ aio_todo = 0
    /\ aio_log = <<>>
    /\ aio_iter = 0
    /\ aio_stopping = FALSE

\* ------------------------------------------------------------- helpers
is_running == thread_id
Nested == qt_event_loop # "None"

Repeat(x, n) == [i \in 1..n |-> x]
Count(q, n) == Cardinality({i \in 1..Len(q) : q[i] = n})

\* BaseEventLoop._run_once: the timeout handed to select(), given how many
\* timers are due.
RunOnceTimeout(due) ==
    IF ready # <<>> \/ stopping THEN "zero"
    ELSE IF scheduled > 0 THEN (IF due > 0 THEN "zero" ELSE "finite")
    ELSE "none"

\* AsyncSlotSelectable.select: what the call does with this timeout.
SelectMode_YieldOnZero(timeout) ==
    IF ioReady THEN "sync"
    ELSE IF sel_notifier = 0 THEN "block"
    ELSE "yield"

SelectMode(timeout) ==
    IF timeout = "zero" \/ ioReady THEN "sync"
    ELSE IF sel_notifier = 0 THEN "block"
    ELSE "yield"

\* stop(), call_soon(), call_later(), call_at(): whether _write_to_self() is
\* called first.
NeedsWakeup_Never == FALSE
NeedsWakeup == blocked_in_select

\* call_soon(), call_later(), call_at() (lines 343-344, 368-369, 373-374):
\* whether _write_to_self() is called before delegating to the scheduler.
CallNeedsWakeup_Never == FALSE
CallNeedsWakeup == blocked_in_select

\* AsyncSlotSelectable.set_notifier on a BUSY selector (lines 98-99): whether
\* the worker's wait is woken up.  The caller is then blocked in the call:
\* __exit__ at line 202, or the caller of the selector taken alone.
WokenUp_Never == FALSE
WokenUp == pc = "exit_wait" \/ sel_call = "set_notifier"

\* __enter__, line 177: _check_closed() raises.
CheckClosedFails_Never == FALSE
CheckClosedFails == closed

\* __enter__, line 178: _check_running() raises when this loop is running
\* or any loop is the running loop of the thread.
CheckRunningFails_SelfOnly == is_running
CheckRunningFails == is_running \/ running_loop # "none"

\* _on_notified (lines 53-59): whether a notification reaching notifier n
\* calls its callback.
Delivers_Always(n) == TRUE
Delivers(n) == n \in live

\* The except BaseException branch of the handler, line 232: whether the
\* error makes the handler exit the nested loop instead of re-raising.
RaiseExitsLoop_Always == TRUE
RaiseExitsLoop == Nested

\* The finally clause of run_forever, line 296: __run_once_error after a run.
ErrorAfterRun_Kept == run_once_error
ErrorAfterRun == 0

\* _AsyncSlotNotifierObject.notify from the controlling thread: TRUE when the
\* emission is queued, FALSE when the slot is called synchronously.
EmitIsQueued == ConnectionType = "QueuedConnection"

\* One emission of _notified over the queued connection made in __init__:
\* one call of _on_notified is posted to the Qt event queue.
Post_Twice(q, n) == Append(Append(q, n), n)
Post(q, n) == Append(q, n)

\* __enter__, line 191: the notify() that schedules the first _run_once.
InitialPost_None(q, n) == q
InitialPost(q, n) == Post(q, n)

\* __process_asyncio_events from its first line to the return of select()
\* inside _run_once, entered with posted-event queue q, t ticks and s
\* notifications so far; d is the depth of the new invocation.
TickStart(q, t, s, d) ==
    /\ t < MaxTicks
    /\ sel_state = "IDLE"
    /\ queue' = q
    /\ ticks' = t + 1
    /\ sent' = s
    /\ depth' = d
    /\ blocked_in_select' = FALSE
    /\ \E due \in 0..scheduled :
         LET timeout == RunOnceTimeout(due)
             mode == SelectMode(timeout) IN
         /\ last_select' = mode
         /\ IF mode = "yield"
            THEN /\ due = 0
                 /\ sel_state' = "BUSY"
                 /\ sel_timeout' = timeout
                 /\ pc' = "yielded"
                 /\ UNCHANGED <<sel_notifier, ioReady, scheduled, ready, todo>>
            ELSE /\ ioReady' = FALSE
                 /\ scheduled' = scheduled - due
                 /\ ready' = ready \o Repeat("append", due)
                 /\ todo' = Len(ready) + due
                 /\ pc' = "batch"
                 /\ UNCHANGED selVars

\* ------------------------------------------------------------- enter / run_forever
\* __enter__, after _check_closed and _check_running passed; nested tells
\* whether run_forever then starts a QEventLoop or the run is attached.
Enter(nested) ==
    /\ pc = "idle"
    /\ ~CheckClosedFails
    /\ ~CheckRunningFails
    /\ nextId <= MaxRuns
    /\ thread_id' = TRUE
    /\ notifier' = nextId
    /\ nextId' = nextId + 1
    /\ live' = live \cup {nextId}
    /\ log' = <<>>
    /\ result' = "none"
    /\ exit_code' = -1
    /\ exit_by' = "none"
    /\ stop_at_enter' = stopping
    /\ enter_error' = "none"
    /\ UNCHANGED <<closed, stopping, run_once_error, calls, stop_called, error_raised,
                   other_running, taskVars>>
    /\ IF EmitIsQueued
       THEN /\ queue' = InitialPost(queue, nextId)
            /\ sent' = 1
            /\ ticks' = 0
            /\ sel_notifier' = nextId
            /\ running_loop' = "self"
            /\ qt_event_loop' = IF nested THEN "QEventLoop" ELSE "None"
            /\ pc' = "exec"
            /\ UNCHANGED <<depth, blocked_in_select, ready, scheduled, todo,
                           sel_state, sel_timeout, ioReady, last_select>>
       ELSE \* the handler runs inside notify(), before line 193
            /\ TickStart(queue, 0, 1, depth + 1)
            /\ UNCHANGED <<running_loop, qt_event_loop>>

RunForever == Enter(TRUE)
EnterAttached == Enter(FALSE)

\* ------------------------------------------------------------- the tick handler
\* A Qt event loop of the thread (the nested QEventLoop, or the application's
\* loop around an attached run or after a run) dispatches the first posted
\* notification.
Dispatch ==
    /\ pc \in {"exec", "idle"}
    /\ queue # <<>>
    /\ LET n == Head(queue) IN
       IF Delivers(n)
       THEN /\ TickStart(Tail(queue), ticks, sent, depth + 1)
            /\ UNCHANGED <<closed, stopping, thread_id, running_loop, qt_event_loop,
                           notifier, run_once_error, live, nextId, exitVars,
                           result, log, calls, histVars, envVars, taskVars>>
       ELSE \* _on_notified with _callback None: nothing runs
            /\ queue' = Tail(queue)
            /\ UNCHANGED <<pc, depth, bridgeVars, ready, scheduled, todo, live,
                           nextId, selVars, ioReady, exitVars, result, sent,
                           ticks, log, calls, last_select, histVars, envVars,
                           taskVars>>

\* One handle of the batch runs (the for loop of _run_once).
RunCallback ==
    /\ pc = "batch"
    /\ todo > 0
    /\ LET cb == Head(ready) IN
       /\ ready' = Tail(ready)
       /\ CASE cb = "append" ->
                 /\ log' = Append(log, cb)
                 /\ todo' = todo - 1
                 /\ UNCHANGED <<pc, depth, stopping, run_once_error, ioReady,
                                exitVars, result, stop_called, steps>>
            [] cb = "cancelled" ->
                 \* _run_once: "if handle._cancelled: continue"
                 /\ todo' = todo - 1
                 /\ UNCHANGED <<pc, depth, stopping, run_once_error, ioReady,
                                exitVars, result, stop_called, log, steps>>
            [] cb = "task_step" ->
                 /\ steps' = steps + 1
                 /\ todo' = todo - 1
                 /\ UNCHANGED <<pc, depth, stopping, run_once_error, ioReady,
                                exitVars, result, stop_called, log>>
            [] cb = "append_stop" ->
                 \* stop(): lines 326-328
                 /\ log' = Append(log, cb)
                 /\ todo' = todo - 1
                 /\ ioReady' = (ioReady \/ NeedsWakeup)
                 /\ stopping' = TRUE
                 /\ stop_called' = TRUE
                 /\ UNCHANGED <<pc, depth, run_once_error, exitVars, result, steps>>
            [] cb = "raise" ->
                 \* except BaseException: lines 229-235
                 /\ log' = Append(log, cb)
                 /\ run_once_error' = notifier
                 /\ todo' = 0
                 /\ pc' = "exec"
                 /\ depth' = 0
                 /\ IF RaiseExitsLoop
                    THEN /\ exit_code' = ExitCodeOnError
                         /\ exit_by' = "tick"
                         /\ UNCHANGED result
                    ELSE /\ result' = "TickRaised"
                         /\ UNCHANGED exitVars
                 /\ UNCHANGED <<stopping, ioReady, stop_called, steps>>
    /\ UNCHANGED <<closed, thread_id, running_loop, qt_event_loop, notifier,
                   blocked_in_select, scheduled, live, nextId, queue, selVars,
                   sent, ticks, calls, last_select, stop_at_enter, error_raised,
                   envVars, tasks, subVars>>

\* The else branch of the handler (lines 236-248): whether the tick asks the
\* nested loop to exit instead of requeueing.
StopsLoop_IgnoreMode == stopping
StopsLoop_Never == FALSE
StopsLoop == stopping /\ Nested

\* _run_once returned: lines 236-248.
TickEnd ==
    /\ pc = "batch"
    /\ todo = 0
    /\ IF StopsLoop
       THEN /\ exit_code' = ExitCodeOnStop
            /\ exit_by' = "tick"
            /\ pc' = "exec"
            /\ depth' = 0
            /\ UNCHANGED <<queue, sent, ticks, blocked_in_select, ready, scheduled,
                           todo, selVars, ioReady, last_select>>
       ELSE IF EmitIsQueued
       THEN /\ queue' = Post(queue, notifier)
            /\ sent' = sent + 1
            /\ pc' = "exec"
            /\ depth' = 0
            /\ UNCHANGED <<exitVars, ticks, blocked_in_select, ready, scheduled,
                           todo, selVars, ioReady, last_select>>
       ELSE \* the handler is called again from inside notify()
            /\ TickStart(queue, ticks, sent + 1, depth + 1)
            /\ UNCHANGED exitVars
    /\ UNCHANGED <<closed, stopping, thread_id, running_loop, qt_event_loop,
                   notifier, run_once_error, live, nextId, result, log, calls,
                   histVars, envVars, taskVars>>

\* except AsyncSlotYield: lines 227-228.
TickYield_Requeue ==
    /\ pc = "yielded"
    /\ blocked_in_select' = TRUE
    /\ queue' = Post(queue, notifier)
    /\ sent' = sent + 1
    /\ pc' = "exec"
    /\ depth' = 0
    /\ UNCHANGED <<closed, stopping, thread_id, running_loop, qt_event_loop,
                   notifier, run_once_error, ready, scheduled, todo, live, nextId,
                   selVars, ioReady, exitVars, result, ticks, log,
                   calls, last_select, histVars, envVars, taskVars>>

TickYield ==
    /\ pc = "yielded"
    /\ blocked_in_select' = TRUE
    /\ pc' = "exec"
    /\ depth' = 0
    /\ UNCHANGED <<closed, stopping, thread_id, running_loop, qt_event_loop,
                   notifier, run_once_error, ready, scheduled, todo, live, nextId,
                   queue, selVars, ioReady, exitVars, result, sent, ticks, log,
                   calls, last_select, histVars, envVars, taskVars>>

\* ------------------------------------------------------------- the selector's worker
\* The worker's select() completes: I/O is ready, the timeout elapsed, or
\* set_notifier woke it up.  It signals the installed notifier (from the
\* worker thread: the emission is queued whatever the connection type).
WorkerDone ==
    /\ sel_state = "BUSY"
    /\ ioReady \/ sel_timeout = "finite" \/ WokenUp
    /\ sel_state' = "IDLE"
    /\ IF sel_notifier \in live
       THEN /\ queue' = Post(queue, sel_notifier)
            /\ sent' = IF sel_notifier = notifier THEN sent + 1 ELSE sent
       ELSE UNCHANGED <<queue, sent>>
    /\ sel_timeout' = "zero"
    /\ UNCHANGED <<pc, depth, bridgeVars, ready, scheduled, todo, live, nextId,
                   sel_notifier, ioReady, exitVars, result, ticks,
                   log, calls, last_select, histVars, envVars, taskVars>>

\* ------------------------------------------------------------- exit
\* __exit__ from set_notifier(None) having returned (lines 202-211).
ExitTail_KeepStopping ==
    /\ sel_notifier' = 0
    /\ live' = live \ {notifier}
    /\ notifier' = 0
    /\ stopping' = stopping
    /\ stop_called' = FALSE
    /\ thread_id' = FALSE
    /\ running_loop' = "none"
    /\ pc' = "idle"

ExitTail ==
    /\ sel_notifier' = 0
    /\ live' = live \ {notifier}
    /\ notifier' = 0
    /\ stopping' = FALSE
    /\ stop_called' = FALSE
    /\ thread_id' = FALSE
    /\ running_loop' = "none"
    /\ pc' = "idle"

\* __exit__ whose set_notifier(None) returns without waiting for the worker.
ExitHead_NoWait == ExitTail

\* __exit__ up to set_notifier(None): it returns at once on an IDLE selector
\* and waits for the worker on a BUSY one.
ExitHead ==
    IF sel_state = "BUSY"
    THEN /\ pc' = "exit_wait"
         /\ UNCHANGED <<sel_notifier, live, notifier, stopping, thread_id,
                        running_loop, stop_called>>
    ELSE ExitTail

\* run_forever after exec() returned: lines 283-291.
RunForeverResult ==
    IF exit_code = 0 THEN "returned"
    ELSE IF run_once_error # 0 THEN "raised_error"
    ELSE "raised_RuntimeError"

\* run_forever after exec() returned (lines 283-297), then __exit__.
ExecReturn ==
    /\ pc = "exec"
    /\ Nested
    /\ exit_code # -1
    /\ result' = RunForeverResult
    /\ error_raised' = IF RunForeverResult = "raised_error" THEN run_once_error ELSE 0
    /\ run_once_error' = ErrorAfterRun
    /\ qt_event_loop' = "None"
    /\ exit_code' = -1
    /\ ExitHead
    /\ UNCHANGED <<depth, closed, blocked_in_select, ready, scheduled, todo, nextId,
                   queue, sel_state, sel_timeout, ioReady, exit_by, sent, ticks,
                   log, calls, last_select, stop_at_enter, envVars, taskVars>>

\* The attached run ends: the owner of the Qt loop calls __exit__.
ExitAttached ==
    /\ pc = "exec"
    /\ ~Nested
    /\ is_running
    /\ ExitHead
    /\ UNCHANGED <<depth, closed, qt_event_loop, blocked_in_select, run_once_error,
                   ready, scheduled, todo, nextId, queue, sel_state, sel_timeout,
                   ioReady, exitVars, result, sent, ticks, log, calls, last_select,
                   stop_at_enter, error_raised, envVars, taskVars>>

\* set_notifier(None) returns once the selector is IDLE again.
ExitFinish ==
    /\ pc = "exit_wait"
    /\ sel_state = "IDLE"
    /\ ExitTail
    /\ UNCHANGED <<depth, closed, qt_event_loop, blocked_in_select, run_once_error,
                   ready, scheduled, todo, nextId, queue, sel_state, sel_timeout,
                   ioReady, exitVars, result, sent, ticks, log, calls, last_select,
                   stop_at_enter, error_raised, envVars, taskVars>>

\* ------------------------------------------------------------- calls from outside a tick
\* Code that runs on the controlling thread outside the tick handler: before
\* or after a run, or in a Qt slot the loop dispatches between ticks.
Outside == pc \in {"idle", "exec"}

\* stop(): lines 326-328.
Stop ==
    /\ Outside
    /\ ioReady' = (ioReady \/ NeedsWakeup)
    /\ stopping' = TRUE
    /\ stop_called' = TRUE
    /\ UNCHANGED <<pc, depth, closed, thread_id, running_loop, qt_event_loop,
                   notifier, blocked_in_select, run_once_error, ready, scheduled,
                   todo, live, nextId, queue, selVars, exitVars, result, sent,
                   ticks, log, calls, last_select, stop_at_enter, error_raised,
                   envVars, taskVars>>

\* call_soon(): lines 343-347 (not eager).
CallSoon(cb) ==
    /\ Outside
    /\ ~closed
    /\ calls < MaxCalls
    /\ Len(ready) < MaxReady
    /\ calls' = calls + 1
    /\ ioReady' = (ioReady \/ CallNeedsWakeup)
    /\ ready' = Append(ready, cb)
    /\ UNCHANGED <<pc, depth, bridgeVars, scheduled, todo, live, nextId, queue,
                   selVars, exitVars, result, sent, ticks, log, last_select,
                   histVars, envVars, taskVars>>

\* run_task(): create_task() under __call_soon_eagerly, so that the call_soon
\* made by the new task (lines 342-365) runs the handle at once, then cancels
\* it and leaves it in the ready queue.
RunTask ==
    /\ Outside
    /\ ~closed
    /\ calls < MaxCalls
    /\ Len(ready) < MaxReady
    /\ calls' = calls + 1
    /\ ioReady' = (ioReady \/ CallNeedsWakeup)
    /\ tasks' = tasks + 1
    /\ steps' = steps + 1
    /\ ready' = Append(ready, EagerHandle)
    /\ UNCHANGED <<pc, depth, bridgeVars, scheduled, todo, live, nextId, queue,
                   selVars, exitVars, result, sent, ticks, log, last_select,
                   histVars, envVars, subVars>>

\* call_later() / call_at(): lines 367-375.
CallLater ==
    /\ Outside
    /\ ~closed
    /\ calls < MaxCalls
    /\ scheduled < MaxTimers
    /\ calls' = calls + 1
    /\ ioReady' = (ioReady \/ CallNeedsWakeup)
    /\ scheduled' = scheduled + 1
    /\ UNCHANGED <<pc, depth, bridgeVars, ready, todo, live, nextId, queue,
                   selVars, exitVars, result, sent, ticks, log, last_select,
                   histVars, envVars, taskVars>>

\* ------------------------------------------------------------- the environment
\* Something outside the bridge makes the nested loop exit
\* (QCoreApplication.exit(code) / quit()); taken while no exit is pending.
ForeignQuit ==
    /\ pc = "exec"
    /\ Nested
    /\ exit_code = -1
    /\ \E c \in ExtCodes : exit_code' = c
    /\ exit_by' = "foreign"
    /\ UNCHANGED <<pc, depth, bridgeVars, ready, scheduled, todo, live, nextId,
                   queue, selVars, ioReady, result, sent, ticks, log, calls,
                   last_select, histVars, envVars, taskVars>>

\* A file descriptor the selector watches becomes ready.
IOArrives ==
    /\ ~ioReady
    /\ is_running
    /\ ioReady' = TRUE
    /\ UNCHANGED <<pc, depth, bridgeVars, ready, scheduled, todo, live, nextId,
                   queue, selVars, exitVars, result, sent, ticks, log, calls,
                   last_select, histVars, envVars, taskVars>>

\* ------------------------------------------------------------- failing enter, close, other bridges
\* __enter__ raising at line 177 or 178, called by run_forever ("with self")
\* or directly, from outside a tick or from a callback of a running tick:
\* nothing has been assigned yet, and "with" does not call __exit__.
EnterFails ==
    /\ pc \in {"idle", "exec", "batch"}
    /\ CheckClosedFails \/ CheckRunningFails
    /\ calls < MaxCalls
    /\ calls' = calls + 1
    /\ enter_error' = IF CheckClosedFails THEN "ClosedError" ELSE "AlreadyRunningError"
    /\ UNCHANGED <<pc, depth, bridgeVars, ready, scheduled, todo, live, nextId,
                   queue, selVars, ioReady, exitVars, result, sent, ticks, log,
                   last_select, histVars, other_running, taskVars>>

\* BaseEventLoop.close() on a loop that is not running: the ready queue and
\* the timers are dropped and the selector is closed.
Close ==
    /\ pc = "idle"
    /\ ~is_running
    /\ ~closed
    /\ closed' = TRUE
    /\ ready' = <<>>
    /\ scheduled' = 0
    /\ sel_state' = "CLOSED"
    /\ ioReady' = FALSE
    /\ UNCHANGED <<pc, depth, stopping, thread_id, running_loop, qt_event_loop,
                   notifier, blocked_in_select, run_once_error, todo, live, nextId,
                   queue, sel_notifier, sel_timeout, exitVars, result, sent, ticks,
                   log, calls, last_select, histVars, envVars, taskVars>>

\* Another bridge of the thread passes its own __enter__ (its _check_running
\* looks at the same running-loop marker) ...
OtherEnter ==
    /\ pc = "idle"
    /\ ~other_running
    /\ running_loop = "none"
    /\ other_running' = TRUE
    /\ running_loop' = "other"
    /\ UNCHANGED <<pc, depth, closed, stopping, thread_id, qt_event_loop, notifier,
                   blocked_in_select, run_once_error, ready, scheduled, todo, live,
                   nextId, queue, selVars, ioReady, exitVars, result, sent, ticks,
                   log, calls, last_select, histVars, enter_error, taskVars>>

\* ... and its __exit__, which clears the marker.
OtherExit ==
    /\ pc = "idle"
    /\ other_running
    /\ other_running' = FALSE
    /\ running_loop' = "none"
    /\ UNCHANGED <<pc, depth, closed, stopping, thread_id, qt_event_loop, notifier,
                   blocked_in_select, run_once_error, ready, scheduled, todo, live,
                   nextId, queue, selVars, ioReady, exitVars, result, sent, ticks,
                   log, calls, last_select, histVars, enter_error, taskVars>>

Next ==
    \/ RunForever
    \/ EnterAttached
    \/ Dispatch
    \/ RunCallback
    \/ TickEnd
    \/ TickYield
    \/ WorkerDone
    \/ ExecReturn
    \/ ExitAttached
    \/ ExitFinish
    \/ Stop
    \/ \E cb \in Callbacks : CallSoon(cb)
    \/ RunTask
    \/ CallLater
    \/ ForeignQuit
    \/ IOArrives
    \/ EnterFails
    \/ Close
    \/ OtherEnter
    \/ OtherExit

Spec == Init /\ [][Next]_vars

\* The scheduling the code relies on: the Qt event loop delivers every posted
\* event, a running tick handler runs to its end, the worker thread's wait
\* returns once its condition holds, exec() returns after exit() and
\* __exit__ runs to completion.  What callers do (stop, call_soon, quit, I/O)
\* is left unconstrained.
FairSpec ==
    /\ Spec
    /\ WF_vars(Dispatch) /\ WF_vars(RunCallback) /\ WF_vars(TickEnd)
    /\ WF_vars(TickYield) /\ WF_vars(WorkerDone)
    /\ WF_vars(ExecReturn) /\ WF_vars(ExitFinish)

\* ------------------------------------------------------------- eager scheduling, statement by statement
\* run_task() and the eager branch of call_soon() (lines 161-171, 342-365),
\* with the task bookkeeping of asyncio (_enter_task / _leave_task around
\* every Task.__step).  A frame is [k, t, ph]:
\*   k = "step"       Task.__step of task t is executing
\*   k = "run_task"   run_task is between line 163 and its finally; t counts
\*                    the handles it has had run eagerly; ph is "create" until
\*                    create_task's call_soon has returned, then "created"
\*   k = "call_soon"  the eager branch of call_soon; t is its local
\*                    current_task (0: None); ph is "run" before handle._run(),
\*                    "finally" after it; by names the caller
Top == frames[Len(frames)]
Pop == SubSeq(frames, 1, Len(frames) - 1)
Push(f) == Append(frames, f)
SetTop(f) == [frames EXCEPT ![Len(frames)] = f]
InFrame(k) == frames # <<>> /\ Top.k = k
Caller == IF frames = <<>> THEN "slot" ELSE Top.k

\* _leave_task(loop, current_task) at line 355: the registry's entry afterwards.
LeaveTask_Skip(cur) == cur
LeaveTask(cur) == 0

\* The finally of run_task (line 171): the flag afterwards.
RunTaskFinallyFlag_Kept(flag) == flag
RunTaskFinallyFlag(flag) == FALSE

\* The flag after call_soon has taken its eager branch (line 349).
EagerBranchFlag_Kept(flag) == flag
EagerBranchFlag(flag) == FALSE

\* _run_once runs the step of a task from the ready queue: _enter_task.
TaskStep ==
    /\ frames = <<>>
    /\ ~exc
    /\ tasks < MaxTasks
    /\ tasks' = tasks + 1
    /\ current_task' = tasks + 1
    /\ frames' = <<[k |-> "step", t |-> tasks + 1, ph |-> "run", by |-> "tick"]>>
    /\ UNCHANGED <<loopVars, steps, call_soon_eagerly, exc, enter_task_error,
                   last_call_soon>>

\* run_task(), line 163, called from a Qt slot (no frame) or from a task's step.
RunTaskCall ==
    /\ frames = <<>> \/ InFrame("step")
    /\ ~exc
    /\ tasks < MaxTasks
    /\ call_soon_eagerly' = TRUE
    /\ frames' = Push([k |-> "run_task", t |-> 0, ph |-> "create", by |-> Caller])
    /\ UNCHANGED <<loopVars, tasks, steps, current_task, exc, enter_task_error,
                   last_call_soon>>

\* create_task() raises before its call_soon is reached (line 164).
CreateTaskRaises ==
    /\ InFrame("run_task")
    /\ Top.ph = "create"
    /\ ~exc
    /\ exc' = TRUE
    /\ UNCHANGED <<loopVars, tasks, steps, call_soon_eagerly, current_task, frames,
                   enter_task_error, last_call_soon>>

\* call_soon(), lines 342-355: by create_task inside run_task, or by the code
\* of a task's step or of a slot.
CallSoonCall ==
    /\ frames = <<>> \/ InFrame("step") \/ InFrame("run_task")
    /\ ~exc
    /\ IF call_soon_eagerly
       THEN /\ call_soon_eagerly' = EagerBranchFlag(call_soon_eagerly)
            /\ current_task' = IF current_task # 0 THEN LeaveTask(current_task)
                                                   ELSE 0
            /\ frames' = Append(IF InFrame("run_task")
                                THEN SetTop([Top EXCEPT !.t = @ + 1])
                                ELSE frames,
                                [k |-> "call_soon", t |-> current_task,
                                 ph |-> "run", by |-> Caller])
            /\ last_call_soon' = "eager"
       ELSE /\ last_call_soon' = "deferred"
            /\ frames' = IF InFrame("run_task")
                         THEN SetTop([Top EXCEPT !.ph = "created"])
                         ELSE frames
            /\ UNCHANGED <<call_soon_eagerly, current_task>>
    /\ UNCHANGED <<loopVars, tasks, steps, exc, enter_task_error>>

\* handle._run() at line 358: Task.__step of the new task, which starts with
\* _enter_task (a RuntimeError if another task is current; Handle._run
\* reports it and returns).
HandleRun ==
    /\ InFrame("call_soon")
    /\ Top.ph = "run"
    /\ IF current_task # 0
       THEN /\ enter_task_error' = TRUE
            /\ frames' = SetTop([Top EXCEPT !.ph = "finally"])
            /\ UNCHANGED <<tasks, current_task>>
       ELSE /\ tasks' = tasks + 1
            /\ current_task' = tasks + 1
            /\ frames' = Push([k |-> "step", t |-> tasks + 1, ph |-> "run",
                               by |-> "call_soon"])
            /\ UNCHANGED enter_task_error
    /\ UNCHANGED <<loopVars, steps, call_soon_eagerly, exc, last_call_soon>>

\* The step ends: the coroutine suspends or returns, or a BaseException
\* leaves it (its own, or one that reached it from run_task); Task.__step
\* calls _leave_task in its finally.
StepReturn ==
    /\ InFrame("step")
    /\ \E raises \in BOOLEAN : exc' = (exc \/ raises)
    /\ current_task' = 0
    /\ frames' = IF Len(frames) > 1 /\ frames[Len(frames) - 1].k = "call_soon"
                 THEN [Pop EXCEPT ![Len(frames) - 1].ph = "finally"]
                 ELSE Pop
    /\ UNCHANGED <<loopVars, tasks, steps, call_soon_eagerly, enter_task_error,
                   last_call_soon>>

\* The step catches the exception of the run_task it called.
StepCatches ==
    /\ InFrame("step")
    /\ exc
    /\ exc' = FALSE
    /\ UNCHANGED <<loopVars, tasks, steps, call_soon_eagerly, current_task, frames,
                   enter_task_error, last_call_soon>>

\* The finally of the eager branch, lines 360-364: handle.cancel(), then
\* _enter_task of the task that was current; call_soon returns (or the
\* exception goes on to its caller).
CallSoonFinally ==
    /\ InFrame("call_soon")
    /\ Top.ph = "finally"
    /\ IF Top.t # 0
       THEN /\ current_task' = Top.t
            /\ enter_task_error' = (enter_task_error \/ current_task # 0)
       ELSE UNCHANGED <<current_task, enter_task_error>>
    /\ frames' = IF Top.by = "run_task"
                 THEN [Pop EXCEPT ![Len(frames) - 1].ph = "created"]
                 ELSE Pop
    /\ UNCHANGED <<loopVars, tasks, steps, call_soon_eagerly, exc, last_call_soon>>

\* run_task leaves through its finally (line 171), returning the task or
\* with the exception.
RunTaskFinally ==
    /\ InFrame("run_task")
    /\ Top.ph = "created" \/ exc
    /\ call_soon_eagerly' = RunTaskFinallyFlag(call_soon_eagerly)
    /\ frames' = Pop
    /\ UNCHANGED <<loopVars, tasks, steps, current_task, exc, enter_task_error,
                   last_call_soon>>

\* The exception leaves the outermost frame (to _run_once or to Qt).
ExcEscapes ==
    /\ frames = <<>>
    /\ exc
    /\ exc' = FALSE
    /\ UNCHANGED <<loopVars, tasks, steps, call_soon_eagerly, current_task, frames,
                   enter_task_error, last_call_soon>>

EagerNext ==
    \/ TaskStep
    \/ RunTaskCall
    \/ CreateTaskRaises
    \/ CallSoonCall
    \/ HandleRun
    \/ StepReturn
    \/ StepCatches
    \/ CallSoonFinally
    \/ RunTaskFinally
    \/ ExcEscapes

EagerSpec == Init /\ [][EagerNext]_vars

\* ------------------------------------------------------------- the selector taken alone
\* The AsyncSlotSelectable protocol (lines 73-117) under any caller that
\* respects its state machine: one call at a time, select() on an IDLE
\* selector, any notifier (0: None) given to set_notifier.  The behaviour of
\* a closed selector and of close() on a BUSY one is not in the protocol's
\* text in the source; it is taken from the specification.
Timeouts == {"zero", "finite", "none"}
Notifiers == 0..MaxRuns
selRestVars == <<pc, depth, closed, stopping, thread_id, running_loop,
                 qt_event_loop, notifier, blocked_in_select, run_once_error,
                 ready, scheduled, todo, live, nextId, queue, exit_code, exit_by,
                 result, sent, ticks, log, calls, last_select, stop_called,
                 stop_at_enter, error_raised, other_running, enter_error,
                 tasks, steps, eagerVars, sigVars, mockVars, aioVars>>

\* The notifier the worker signals when its wait completes (lines 99-100,
\* 111-113): the installed one, which during a blocked set_notifier is still
\* the previous one.
SignalTarget_New == IF sel_call = "set_notifier" THEN sel_new ELSE sel_notifier
SignalTarget == sel_notifier

\* "When that select() completes, signal the notifier object" (line 113):
\* the signals made so far, after the worker's.
Signal_Dropped(sigs, n) == sigs
Signal(sigs, n) == Append(sigs, n)

\* The state close() leaves the selector in (line 81, 85).
CloseState_Idle == "IDLE"
CloseState == "CLOSED"

\* What a call on a closed selector gives its caller.
ClosedOutcome_Returned == "returned"
ClosedOutcome == "ClosedError"

SelectOp(timeout) ==
    CASE timeout = "zero" -> "select(0)"
      [] timeout = "finite" -> "select(t)"
      [] timeout = "none" -> "select(None)"

\* select(timeout) on an IDLE selector: lines 104-117, 86-88.
SelSelect(timeout) ==
    /\ sel_call = "none"
    /\ sel_state = "IDLE"
    /\ sel_op' = SelectOp(timeout)
    /\ LET mode == SelectMode(timeout) IN
       CASE mode = "sync" ->
              /\ sel_out' = "returned"
              /\ ioReady' = FALSE
              /\ UNCHANGED <<selVars, sel_call, waits, wait_notifier>>
         [] mode = "yield" ->
              /\ waits < MaxWaits
              /\ waits' = waits + 1
              /\ sel_state' = "BUSY"
              /\ sel_timeout' = timeout
              /\ wait_notifier' = sel_notifier
              /\ sel_out' = "yield"
              /\ UNCHANGED <<sel_notifier, ioReady, sel_call>>
         [] mode = "block" ->
              /\ sel_call' = "select"
              /\ sel_timeout' = timeout
              /\ sel_out' = "none"
              /\ UNCHANGED <<sel_state, sel_notifier, ioReady, waits,
                             wait_notifier>>
    /\ UNCHANGED <<selRestVars, sel_new, signals>>

\* The blocking select of a selector without notifier returns (lines 115-116).
SelBlockReturn ==
    /\ sel_call = "select"
    /\ ioReady \/ sel_timeout = "finite"
    /\ sel_call' = "none"
    /\ sel_out' = "returned"
    /\ ioReady' = FALSE
    /\ sel_timeout' = "zero"
    /\ UNCHANGED <<selRestVars, sel_state, sel_notifier, sel_new, sel_op, signals,
                   waits, wait_notifier>>

\* set_notifier(n): lines 95-102, 89, 91.  On a BUSY selector the call wakes
\* the worker up and stays blocked.
SelSetNotifier(n) ==
    /\ sel_call = "none"
    /\ sel_state \in {"IDLE", "BUSY"}
    /\ sel_op' = "set_notifier"
    /\ IF sel_state = "IDLE"
       THEN /\ sel_notifier' = n
            /\ sel_out' = "returned"
            /\ UNCHANGED <<sel_call, sel_new>>
       ELSE /\ sel_call' = "set_notifier"
            /\ sel_new' = n
            /\ sel_out' = "none"
            /\ UNCHANGED sel_notifier
    /\ UNCHANGED <<selRestVars, sel_state, sel_timeout, ioReady, signals, waits,
                   wait_notifier>>

\* The worker's wait completes (line 90, or line 91 after a wake-up) and the
\* worker signals the notifier.
SelWorkerDone ==
    /\ sel_state = "BUSY"
    /\ ioReady \/ sel_timeout = "finite" \/ WokenUp
    /\ sel_state' = "IDLE"
    /\ sel_timeout' = "zero"
    /\ signals' = Signal(signals, SignalTarget)
    /\ UNCHANGED <<selRestVars, sel_notifier, ioReady, sel_call, sel_new, sel_op,
                   sel_out, waits, wait_notifier>>

\* The blocked set_notifier finds the selector IDLE, installs its notifier
\* and returns.
SelSetNotifierReturn ==
    /\ sel_call = "set_notifier"
    /\ sel_state = "IDLE"
    /\ sel_notifier' = sel_new
    /\ sel_new' = 0
    /\ sel_call' = "none"
    /\ sel_out' = "returned"
    /\ UNCHANGED <<selRestVars, sel_state, sel_timeout, ioReady, sel_op, signals,
                   waits, wait_notifier>>

\* close() on an IDLE selector: line 85.
SelClose ==
    /\ sel_call = "none"
    /\ sel_state = "IDLE"
    /\ sel_state' = CloseState
    /\ sel_op' = "close"
    /\ sel_out' = "returned"
    /\ ioReady' = FALSE
    /\ UNCHANGED <<selRestVars, sel_notifier, sel_timeout, sel_call, sel_new,
                   signals, waits, wait_notifier>>

\* close() on a BUSY selector.  Whether the worker it ends still signals the
\* notifier is left open.
SelCloseBusy ==
    /\ sel_call = "none"
    /\ sel_state = "BUSY"
    /\ sel_state' = CloseState
    /\ sel_timeout' = "zero"
    /\ ioReady' = FALSE
    /\ \E fires \in BOOLEAN :
         signals' = IF fires THEN Signal(signals, SignalTarget) ELSE signals
    /\ sel_op' = "close"
    /\ sel_out' = "returned"
    /\ UNCHANGED <<selRestVars, sel_notifier, sel_call, sel_new, waits,
                   wait_notifier>>

\* select() or set_notifier() on a closed selector.
SelCallClosed ==
    /\ sel_call = "none"
    /\ sel_state = "CLOSED"
    /\ \E op \in {"select(0)", "select(t)", "select(None)", "set_notifier"} :
         sel_op' = op
    /\ sel_out' = ClosedOutcome
    /\ UNCHANGED <<selRestVars, selVars, ioReady, sel_call, sel_new, signals,
                   waits, wait_notifier>>

\* A file descriptor the selector watches becomes ready.
SelIOArrives ==
    /\ ~ioReady
    /\ sel_state # "CLOSED"
    /\ ioReady' = TRUE
    /\ UNCHANGED <<selRestVars, selVars, selCallVars>>

SelNext ==
    \/ \E t \in Timeouts : SelSelect(t)
    \/ SelBlockReturn
    \/ \E n \in Notifiers : SelSetNotifier(n)
    \/ SelWorkerDone
    \/ SelSetNotifierReturn
    \/ SelClose
    \/ SelCloseBusy
    \/ SelCallClosed
    \/ SelIOArrives

SelSpec == Init /\ [][SelNext]_vars

\* The worker thread's wait returns once its condition holds, and a blocked
\* call returns once it can; what the caller does next and when I/O arrives
\* is left unconstrained.
FairSelSpec ==
    /\ SelSpec
    /\ WF_vars(SelWorkerDone) /\ WF_vars(SelSetNotifierReturn)
    /\ WF_vars(SelBlockReturn)

\* ------------------------------------------------------------- asyncsignal
\* qtinter's asyncsignal (src/src/qtinter/_signals.py, lines 30-58): one
\* coroutine awaiting a signal, the signal's sender, and whoever cancels or
\* closes the coroutine.  The _QiSlotObject is referenced by the variable
\* slot only, so it is deleted, and the connection with it, as soon as slot
\* is set to None (after handler has returned, when handler does it).
sigRestVars == <<pc, depth, closed, stopping, thread_id, running_loop,
                 qt_event_loop, notifier, blocked_in_select, run_once_error,
                 ready, scheduled, todo, live, nextId, queue, sel_state,
                 sel_notifier, sel_timeout, ioReady, exit_code, exit_by, result,
                 sent, ticks, log, calls, last_select, stop_called,
                 stop_at_enter, error_raised, other_running, enter_error,
                 tasks, steps, eagerVars, selCallVars, mockVars, aioVars>>

\* handler, line 45: whether set_result is called on this future.
HandlerSets_Always(f) == TRUE
HandlerSets(f) == f = "pending"

\* handler, line 47: the variable slot (is not None) after handler.
HandlerSlot_Kept(s) == s
HandlerSlot(s) == FALSE

\* finally, line 58: the variable slot (is not None) after the finally.
FinallySlot_Kept(s) == s
FinallySlot(s) == FALSE

\* asyncsignal is called and runs to its await: lines 41-52.
SigStart ==
    /\ aw = "init"
    /\ awaits < MaxAwaits
    /\ awaits' = awaits + 1
    /\ fut' = "pending"
    /\ fut_result' = 0
    /\ slot' = TRUE
    /\ connected' = sender_alive
    /\ connect_at' = emits
    /\ handler_calls' = 0
    /\ set_calls' = 0
    /\ aw' = "awaiting"
    /\ UNCHANGED <<sigRestVars, sender_alive, emits, sig_error>>

\* signal.connect raises (line 51): the finally runs and the exception
\* leaves the coroutine.
SigConnectRaises ==
    /\ aw = "init"
    /\ awaits < MaxAwaits
    /\ awaits' = awaits + 1
    /\ fut' = "pending"
    /\ fut_result' = 0
    /\ slot' = FinallySlot(TRUE)
    /\ connected' = FALSE
    /\ connect_at' = emits
    /\ handler_calls' = 0
    /\ set_calls' = 0
    /\ aw' = "raised"
    /\ UNCHANGED <<sigRestVars, sender_alive, emits, sig_error>>

\* The sender emits the signal; if the connection exists handler runs
\* (lines 43-47).  set_result on a future that is done raises.
SigEmit ==
    /\ sender_alive
    /\ emits < MaxEmits
    /\ emits' = emits + 1
    /\ IF connected
       THEN /\ handler_calls' = handler_calls + 1
            /\ IF HandlerSets(fut)
               THEN IF fut = "pending"
                    THEN /\ fut' = "result"
                         /\ fut_result' = emits + 1
                         /\ set_calls' = set_calls + 1
                         /\ slot' = HandlerSlot(slot)
                         /\ UNCHANGED sig_error
                    ELSE /\ sig_error' = TRUE
                         /\ UNCHANGED <<fut, fut_result, set_calls, slot>>
               ELSE /\ slot' = HandlerSlot(slot)
                    /\ UNCHANGED <<fut, fut_result, set_calls, sig_error>>
            /\ connected' = slot'
       ELSE UNCHANGED <<handler_calls, fut, fut_result, set_calls, slot, sig_error,
                        connected>>
    /\ UNCHANGED <<sigRestVars, aw, sender_alive, connect_at, awaits>>

\* The task awaiting the signal is cancelled: its future is cancelled, and
\* the coroutine resumes later.
SigCancel ==
    /\ aw = "awaiting"
    /\ fut = "pending"
    /\ fut' = "cancelled"
    /\ UNCHANGED <<sigRestVars, aw, fut_result, slot, connected, sender_alive,
                   emits, connect_at, handler_calls, set_calls, sig_error, awaits>>

\* The coroutine resumes from a future that is done (line 52), returning the
\* result or raising CancelledError, through the finally (line 58).
SigResume ==
    /\ aw = "awaiting"
    /\ fut # "pending"
    /\ aw' = IF fut = "result" THEN "returned" ELSE "raised"
    /\ slot' = FinallySlot(slot)
    /\ connected' = (connected /\ slot')
    /\ UNCHANGED <<sigRestVars, fut, fut_result, sender_alive, emits, connect_at,
                   handler_calls, set_calls, sig_error, awaits>>

\* An exception is thrown into the coroutine at its await while the future
\* is pending (the coroutine is closed, or throw() is called): the finally
\* runs.
SigThrow ==
    /\ aw = "awaiting"
    /\ fut = "pending"
    /\ aw' = "raised"
    /\ slot' = FinallySlot(slot)
    /\ connected' = (connected /\ slot')
    /\ UNCHANGED <<sigRestVars, fut, fut_result, sender_alive, emits, connect_at,
                   handler_calls, set_calls, sig_error, awaits>>

\* The sender is deleted: Qt closes its connections (lines 33-38).
SigSenderGone ==
    /\ sender_alive
    /\ sender_alive' = FALSE
    /\ connected' = FALSE
    /\ UNCHANGED <<sigRestVars, aw, fut, fut_result, slot, emits, connect_at,
                   handler_calls, set_calls, sig_error, awaits>>

\* The caller awaits the signal again with a new asyncsignal() call.
SigAgain ==
    /\ aw \in {"returned", "raised"}
    /\ awaits < MaxAwaits
    /\ aw' = "init"
    /\ UNCHANGED <<sigRestVars, fut, fut_result, slot, connected, sender_alive,
                   emits, connect_at, handler_calls, set_calls, sig_error, awaits>>

SigNext ==
    \/ SigStart
    \/ SigConnectRaises
    \/ SigEmit
    \/ SigCancel
    \/ SigResume
    \/ SigThrow
    \/ SigSenderGone
    \/ SigAgain

SigSpec == Init /\ [][SigNext]_vars

\* ------------------------------------------------------------- sanity of the model
TypeOK ==
    /\ pc \in {"idle", "exec", "batch", "yielded", "exit_wait"}
    /\ depth \in 0..1
    /\ sel_state \in {"IDLE", "BUSY", "CLOSED"}
    /\ running_loop \in {"none", "self", "other"}
    /\ enter_error \in {"none", "ClosedError", "AlreadyRunningError"}
    /\ steps \in 0..MaxCalls /\ tasks \in 0..MaxCalls
    /\ notifier \in 0..MaxRuns
    /\ last_select \in {"none", "sync", "yield"}

\* The guard sel_state = "IDLE" of TickStart never keeps a dispatch back.
SelectOnlyWhenIdle ==
    (pc = "exec" /\ queue # <<>> /\ Head(queue) \in live) => sel_state = "IDLE"

PendingAtMostOne == notifier # 0 => Count(queue, notifier) <= 1

\* ------------------------------------------------------------- claims
Pending == Count(queue, notifier)
InLog(cb) == \E i \in 1..Len(log) : log[i] = cb
NestedResults == {"returned", "raised_error", "raised_RuntimeError"}
\* A step in which notify() is called on the bridge's notifier.
NotifyStep ==
    \/ notifier' = notifier /\ sent' = sent + 1
    \/ notifier = 0 /\ notifier' # 0
\* The step in which the tick handler leaves a completed batch (lines 236-248).
BatchDoneStep == pc = "batch" /\ todo = 0 /\ pc' # "batch"
\* The step in which the next handle of the batch runs.
HandleStep(cb) == pc = "batch" /\ todo > 0 /\ Head(ready) = cb /\ ready' = Tail(ready)

\* C1: every notification on the live notifier is either still queued or has
\* caused exactly one tick: ticks never exceed notify() calls, the notify()
\* calls of a run equal its ticks plus the notifications still pending, and a
\* pending notification can be dispatched whenever the loop is between events.
C1_OneTickPerNotification ==
    /\ ticks <= sent
    /\ notifier # 0 => sent = ticks + Pending
    /\ (pc = "exec" /\ Pending > 0 /\ ticks < MaxTicks) => ENABLED Dispatch

C1_Witness == notifier # 0 /\ sent = 3 /\ ticks = 3 /\ Pending = 0 /\ pc = "batch"

\* C2: notify() never runs the tick handler: a handler invocation begins only
\* when the Qt loop, between events on the controlling thread, takes a queued
\* notification; a step that calls notify() (from enter(), from inside a tick,
\* or from the worker) only appends to the queue; at most one tick is active.
C2_NotifyIsQueued ==
    /\ [](depth <= 1)
    /\ [][depth' > depth =>
            /\ pc = "exec" /\ depth = 0
            /\ queue # <<>> /\ queue' = Tail(queue)
            /\ ~NotifyStep]_vars
    /\ [][NotifyStep => depth' <= depth /\ queue' = Append(queue, notifier')]_vars

C2_Witness ==
    /\ pc = "exec" /\ depth = 0 /\ ticks = 2 /\ Pending = 1
    /\ last_select = "sync" /\ sel_state = "IDLE"

\* C3 (as claimed): while a tick is executing, no notify() is issued on the
\* bridge's notifier.
C3_NoNotifyDuringTick ==
    [][(depth > 0 /\ depth' > 0) => sent' = sent]_vars

\* C3 (amended): while a tick is executing the handler itself calls notify()
\* only as its last statement, leaving a completed batch, and returns in the
\* same step; a tick that yields or raises calls none.  The only other notify()
\* during a tick is the worker's, between the yield and the handler's return;
\* it stays queued, and no tick starts before the current one has returned.
C3_NotifyOnlyAtTickEnd ==
    /\ [][(depth > 0 /\ sent' # sent) =>
            \/ BatchDoneStep /\ depth' = 0 /\ pc' = "exec" /\ sent' = sent + 1
            \/ /\ pc = "yielded" /\ pc' = "yielded" /\ depth' = depth
               /\ sel_state = "BUSY" /\ sel_state' = "IDLE"
               /\ sent' = sent + 1 /\ queue' = Append(queue, notifier)]_vars
    /\ [][depth > 0 => ticks' = ticks]_vars

C3_Witness ==
    /\ pc = "yielded" /\ depth = 1 /\ sel_state = "IDLE" /\ Pending = 1
    /\ ~blocked_in_select

\* C4: the controlling thread never blocks in a tick: select() in a tick
\* never takes its blocking branch (a notifier is installed whenever a tick
\* runs), a batch is bounded by the ready queue as it was snapshotted, and
\* a tick whose select() yields sets blocked_in_select and returns without
\* enqueuing a notification, recording an error or asking the loop to exit.
C4_TickNeverBlocks ==
    /\ [](last_select # "block")
    /\ [](depth > 0 => notifier # 0 /\ sel_notifier = notifier)
    /\ [](pc = "batch" => todo <= Len(ready))
    /\ [](pc = "yielded" =>
            last_select = "yield" /\ (sel_state = "BUSY" => sel_timeout # "zero"))
    /\ [][(pc = "yielded" /\ pc' # "yielded") =>
            /\ blocked_in_select' /\ pc' = "exec" /\ depth' = 0
            /\ queue' = queue /\ sent' = sent
            /\ run_once_error' = run_once_error
            /\ exit_code' = exit_code /\ result' = result]_vars

C4_Witness ==
    /\ pc = "exec" /\ blocked_in_select /\ sel_state = "BUSY"
    /\ sel_timeout = "none" /\ Pending = 0 /\ run_once_error = 0

\* C5: stop() called by a callback of a nested tick does not cut the batch
\* short; the tick that completes its batch with the stop flag set asks the
\* loop to exit with code 0 and does not requeue; nothing is then pending, and
\* run_forever returns normally with the bridge not running.
C5_StopInsideTick ==
    /\ [][HandleStep("append_stop") =>
            /\ stopping' /\ pc' = "batch" /\ todo' = todo - 1
            /\ log' = Append(log, "append_stop")
            /\ exit_code' = exit_code /\ queue' = queue]_vars
    /\ [][(BatchDoneStep /\ stopping /\ Nested) =>
            /\ exit_code' = 0 /\ exit_by' = "tick" /\ pc' = "exec"
            /\ queue' = queue /\ sent' = sent]_vars
    /\ []((Nested /\ pc = "exec" /\ exit_by = "tick" /\ exit_code = 0) =>
            Pending = 0 /\ sel_state = "IDLE")
    /\ []((pc = "idle" /\ result \in NestedResults
           /\ InLog("append_stop") /\ ~InLog("raise")) =>
            result = "returned" /\ ~is_running /\ ~Nested /\ notifier = 0)

C5_Witness ==
    /\ pc = "idle" /\ result = "returned" /\ ~is_running /\ ticks = 1
    /\ log = <<"append_stop", "append">>

\* C6: a nested run entered with the stop flag already set (stop() was called
\* while not running) runs one tick only: that tick never yields, after it
\* the loop has been asked to exit and nothing is pending, and unless its
\* batch raised the exit code is 0 and run_forever returns normally.
C6_StopBeforeRun ==
    /\ (stop_at_enter /\ Nested) =>
          /\ ticks <= 1
          /\ pc # "yielded" /\ sel_state = "IDLE"
          /\ (ticks = 1 /\ pc = "exec") =>
                /\ exit_code # -1 /\ exit_by = "tick" /\ Pending = 0
                /\ run_once_error # notifier => exit_code = 0
    /\ (stop_at_enter /\ pc = "idle" /\ result \in NestedResults /\ exit_by = "tick") =>
          /\ ticks = 1
          /\ ~InLog("raise") => result = "returned"

C6_Witness ==
    /\ stop_at_enter /\ pc = "idle" /\ result = "returned" /\ exit_by = "tick"
    /\ ticks = 1 /\ log = <<"append">>

\* C7: stop() called while the nested bridge is yielded writes to the
\* self-pipe, so the wake-up does not depend on the wait's timeout or on other
\* I/O: whenever a nested bridge with the stop flag set is between events and
\* no exit is pending, either a notification is queued or the worker's wait
\* can complete at once; a tick that starts with the flag set never yields,
\* and on completing its batch it asks the loop to exit with code 0.  Under
\* the fair scheduling, a stop flag set on a yielded nested bridge leads to
\* an exit request (or to the tick budget of the model being used up).
C7_StopWhileBlocked ==
    /\ (Nested /\ stopping /\ blocked_in_select /\ pc = "exec")
           ~> (exit_code # -1 \/ ~Nested \/ ticks = MaxTicks)
    /\ [][(stopping' /\ ~stopping /\ blocked_in_select) => ioReady']_vars
    /\ []((Nested /\ stopping /\ pc = "exec" /\ exit_code = -1) =>
            \/ Pending = 1 /\ sel_state = "IDLE"
            \/ Pending = 0 /\ sel_state = "BUSY" /\ ioReady)
    /\ [](pc = "yielded" => ~stopping)
    /\ [][(Nested /\ stopping /\ depth' > depth) => pc' = "batch"]_vars
    /\ [][(BatchDoneStep /\ stopping /\ Nested) => exit_code' = 0]_vars

C7_Witness ==
    /\ Nested /\ stopping /\ blocked_in_select /\ pc = "exec"
    /\ sel_state = "BUSY" /\ sel_timeout = "none" /\ ioReady /\ exit_code = -1

\* C8: in attached mode stop() is ignored: no exit is ever requested of a
\* loop, a stop() leaves the bridge running attached, and every tick that
\* completes its batch enqueues the next notification, stop flag or not.
C8_StopIgnoredAttached ==
    /\ []((is_running /\ ~Nested /\ pc \in {"exec", "batch", "yielded"}) =>
            exit_code = -1 /\ exit_by = "none")
    /\ [][(BatchDoneStep /\ ~Nested) =>
            /\ queue' = Append(queue, notifier) /\ sent' = sent + 1
            /\ is_running' /\ ~Nested' /\ pc' = "exec"
            /\ exit_code' = -1]_vars
    /\ [][(is_running /\ ~Nested /\ pc # "exit_wait" /\ stopping' /\ ~stopping) =>
            is_running' /\ ~Nested' /\ pc' = pc /\ notifier' = notifier]_vars

C8_Witness ==
    /\ is_running /\ ~Nested /\ stopping /\ pc = "exec" /\ ticks = 3
    /\ Pending = 1 /\ exit_code = -1

\* C9: exit() clears the stop flag: the flag is never set unless stop() was
\* called after the last exit(), so a stop() made during or before an attached
\* run makes no later nested tick ask the loop to exit.
C9_ExitClearsStop ==
    /\ [][(is_running /\ ~is_running') => ~stopping']_vars
    /\ [](stopping => stop_called)
    /\ []((Nested /\ exit_by = "tick" /\ exit_code = 0) => stop_called)

C9_Witness ==
    /\ pc = "idle" /\ nextId = 2 /\ result = "none" /\ InLog("append_stop")
    /\ ~stopping /\ ~is_running

\* C10: in nested mode an error escaping the batch is recorded, the loop is
\* asked to exit with a non-zero code and no notification is enqueued; nothing
\* is then pending, and run_forever raises that error and leaves the bridge
\* not running.
C10_NestedTickError ==
    /\ [][(HandleStep("raise") /\ Nested) =>
            /\ run_once_error' = notifier
            /\ exit_code' \notin {-1, 0} /\ exit_by' = "tick"
            /\ queue' = queue /\ sent' = sent /\ pc' = "exec"]_vars
    /\ []((Nested /\ pc = "exec" /\ exit_by = "tick" /\ exit_code \notin {-1, 0}) =>
            run_once_error = notifier /\ Pending = 0 /\ sel_state = "IDLE")
    /\ [][(Nested /\ ~Nested' /\ exit_by = "tick" /\ run_once_error = notifier) =>
            /\ result' = "raised_error" /\ error_raised' = notifier
            /\ run_once_error' = 0
            /\ pc' = "idle" /\ ~is_running' /\ notifier' = 0]_vars

C10_Witness ==
    /\ pc = "idle" /\ result = "raised_error" /\ error_raised = nextId - 1
    /\ ~is_running /\ InLog("raise")

\* C11: in attached mode an error escaping the batch of a tick is re-raised
\* to the invoker of that tick: the handler records it and returns by raising,
\* asks no loop to exit and enqueues no notification, and the bridge is still
\* running attached with its notifier installed.
C11_AttachedTickError ==
    /\ [][(HandleStep("raise") /\ ~Nested) =>
            /\ result' = "TickRaised" /\ run_once_error' = notifier
            /\ exit_code' = -1 /\ exit_by' = "none"
            /\ is_running' /\ ~Nested' /\ running_loop' = "self"
            /\ notifier' = notifier /\ notifier \in live'
            /\ sel_notifier' = notifier
            /\ pc' = "exec" /\ depth' = 0
            /\ queue' = queue /\ sent' = sent]_vars
    /\ []((result = "TickRaised" /\ is_running) => ~Nested /\ exit_code = -1)

C11_Witness ==
    /\ result = "TickRaised" /\ is_running /\ ~Nested /\ pc = "exec"
    /\ run_once_error = notifier /\ exit_code = -1 /\ Pending = 0

\* C12 (as claimed): when exec() of the nested loop returns a non-zero code
\* and no tick of this run_forever call raised, run_forever raises the generic
\* RuntimeError ("Qt event loop exited with code ..."), whatever was done on
\* the bridge before the call; when it returns zero, run_forever returns
\* normally.
C12_ForeignExitIsGeneric ==
    [][(Nested /\ ~Nested' /\ exit_code # -1) =>
          IF exit_code = 0
          THEN result' = "returned"
          ELSE run_once_error # notifier => result' = "raised_RuntimeError"]_vars

\* C12: a run_forever call ended by an external exit re-raised the error of
\* a tick of an earlier, attached run.
C12_StaleErrorRaised ==
    /\ pc = "idle" /\ exit_by = "foreign" /\ ~InLog("raise")
    /\ result = "raised_error" /\ error_raised # 0 /\ error_raised < nextId - 1

\* C13: every run_forever call that got past __enter__ runs its finally
\* clause and __exit__ whatever the outcome: once exec() can return the call
\* proceeds, its wait in set_notifier(None) always ends, the stored error and
\* the QEventLoop handle are cleared when it leaves the loop, and when it is
\* over the notifier is removed from the selector and closed, the
\* running-loop marker is cleared, the stop flag is false and the bridge is
\* not running, so that it can be entered again.
C13_RunForeverCleansUp ==
    /\ []((Nested /\ pc = "exec" /\ exit_code # -1) => ENABLED ExecReturn)
    /\ [][(Nested /\ ~Nested') =>
            /\ result' \in NestedResults
            /\ run_once_error' = 0
            /\ pc' \in {"idle", "exit_wait"}]_vars
    /\ []((pc = "exit_wait" /\ sel_state = "BUSY") => ENABLED WorkerDone)
    /\ []((pc = "exit_wait" /\ sel_state # "BUSY") => ENABLED ExitFinish)
    /\ [][(pc # "idle" /\ pc' = "idle" /\ result' \in NestedResults) =>
            /\ run_once_error' = 0 /\ ~Nested'
            /\ notifier' = 0 /\ notifier \notin live' /\ sel_notifier' = 0
            /\ running_loop' = "none" /\ ~stopping' /\ ~is_running']_vars
    /\ []((pc = "idle" /\ ~closed /\ ~other_running /\ nextId <= MaxRuns) =>
            ENABLED RunForever)

C13_Witness ==
    /\ Nested /\ notifier = 2 /\ error_raised = 1 /\ result = "none"
    /\ run_once_error = 0 /\ ticks = 1 /\ pc = "batch"

\* A step in which a call of __enter__ (by run_forever or directly) raises.
EnterFailStep == enter_error' # enter_error /\ enter_error' # "none"

\* C14: __enter__ raises "Event loop is closed" on a closed bridge and the
\* already-running error when this bridge or another one is running, a call
\* from inside a tick included; it never succeeds in those states, and a
\* failing call changes nothing: no notifier is created or installed, nothing
\* is enqueued, the running-loop marker, the QEventLoop handle and the
\* notifier of the active run stay, and nothing __exit__ does is done.
C14_EnterFails ==
    /\ [][EnterFailStep =>
            /\ IF closed THEN enter_error' = "ClosedError"
               ELSE /\ enter_error' = "AlreadyRunningError"
                    /\ is_running \/ other_running
            /\ UNCHANGED <<pc, depth, bridgeVars, live, nextId, queue, sent, ticks,
                           selVars, exitVars, ready, scheduled, todo, other_running>>]_vars
    /\ []((closed \/ is_running \/ other_running) =>
            ~ENABLED RunForever /\ ~ENABLED EnterAttached)
    /\ []((pc \in {"idle", "exec", "batch"} /\ calls < MaxCalls
           /\ (closed \/ is_running \/ other_running)) => ENABLED EnterFails)
    /\ [][nextId' # nextId =>
            ~closed /\ ~is_running /\ ~other_running /\ running_loop = "none"]_vars

C14_Witness ==
    /\ enter_error = "AlreadyRunningError" /\ pc = "batch" /\ todo = 1
    /\ Nested /\ notifier = 1 /\ sel_notifier = 1 /\ running_loop = "self"
    /\ nextId = 2 /\ Pending = 0

\* C15: at most one bridge runs at a time and no notifier is shared between
\* runs: this bridge and another one are never both running; the
\* running-loop marker is this bridge exactly while it is running, between
\* ticks included; the only open notifier is the one of the current run;
\* every successful __enter__ creates a notifier no earlier run had and that
\* has no notification queued; and a tick starts only on a notification of
\* the current run's notifier.
C15_OneBridgeOneNotifier ==
    /\ [](~(is_running /\ other_running))
    /\ [](is_running <=> running_loop = "self")
    /\ [](other_running <=> running_loop = "other")
    /\ [](is_running <=> notifier # 0)
    /\ [](live = IF notifier = 0 THEN {} ELSE {notifier})
    /\ [](\A i \in 1..Len(queue) : queue[i] < nextId)
    /\ [][(notifier' # notifier /\ notifier' # 0) =>
            /\ notifier = 0 /\ notifier' = nextId /\ nextId' = nextId + 1
            /\ Count(queue, notifier') = 0
            /\ Count(queue', notifier') = 1]_vars
    /\ [][depth' > depth =>
            /\ queue # <<>> /\ Head(queue) = notifier
            /\ is_running /\ notifier \in live]_vars

C15_Witness ==
    /\ is_running /\ notifier = 2 /\ pc = "exec" /\ ticks = 0
    /\ queue = <<1, 2>> /\ live = {2} /\ running_loop = "self"

\* C16: __enter__ bootstraps ticking: the step that creates the notifier
\* enqueues one notification on it and installs it on the selector without
\* running a tick, the notification stays queued until the first tick, and,
\* under the fair scheduling, a run that has not ticked yet leads to its first
\* tick, unless the run is ended or its nested loop is asked to exit first,
\* whether or not a callback, a timer or I/O is pending.
C16_EnterBootstraps ==
    /\ [][(notifier = 0 /\ notifier' # 0) =>
            /\ queue' = Append(queue, notifier') /\ sent' = 1 /\ ticks' = 0
            /\ sel_notifier' = notifier' /\ pc' = "exec" /\ depth' = 0]_vars
    /\ []((is_running /\ ticks = 0 /\ pc = "exec") => Pending = 1)
    /\ (is_running /\ ticks = 0 /\ pc = "exec")
           ~> (ticks >= 1 \/ ~is_running \/ (Nested /\ exit_code # -1))

C16_Witness ==
    /\ is_running /\ ticks = 1 /\ pc = "yielded" /\ sel_timeout = "none"
    /\ calls = 0 /\ ready = <<>> /\ scheduled = 0 /\ ~ioReady /\ sent = 1
    /\ notifier = 2

\* C17: __exit__ removes the notifier from the selector, closes it and clears
\* the running-loop marker; it returns with the worker's wait over; and from
\* then on no tick runs while the bridge is not running: a notification of a
\* closed notifier, queued by a tick or by the worker before or during
\* __exit__, is taken from the queue without a handler being invoked.
C17_NoTickAfterExit ==
    /\ [][(is_running /\ ~is_running') =>
            /\ sel_notifier' = 0 /\ notifier' = 0 /\ notifier \notin live'
            /\ running_loop' = "none" /\ pc' = "idle"]_vars
    /\ [](~is_running => pc = "idle" /\ depth = 0 /\ live = {})
    /\ [](pc = "idle" => sel_state # "BUSY")
    /\ [][~is_running => (ticks' = ticks \/ is_running')]_vars
    /\ [][(queue # <<>> /\ Head(queue) # notifier /\ queue' = Tail(queue)) =>
            UNCHANGED <<pc, depth, ticks, log, ready, scheduled, todo,
                        blocked_in_select, run_once_error, steps, sel_state,
                        exit_code>>]_vars
    /\ [][ticks' = ticks + 1 =>
            (is_running /\ queue # <<>> /\ Head(queue) = notifier)]_vars

C17_Witness ==
    /\ pc = "idle" /\ ~is_running /\ queue = <<1>> /\ nextId = 2
    /\ last_select = "yield" /\ blocked_in_select /\ sent = ticks + 1

\* C18 (as claimed): whenever the bridge is not running after an __exit__,
\* blocked_in_select is false.
C18_BlockedResetOnExit ==
    (~is_running /\ nextId > 1) => ~blocked_in_select

\* C18: the bridge has exited a run whose last tick yielded, and a call_soon
\* made while it is not running has written to the self-pipe because
\* blocked_in_select is still true.
C18_StaleBlockedFlag ==
    /\ pc = "idle" /\ ~is_running /\ notifier = 0 /\ nextId = 2
    /\ blocked_in_select /\ last_select = "yield"
    /\ ready = <<"append">> /\ calls = 1 /\ ioReady

\* A step in which call_soon, call_later / call_at or run_task is called.
CallStep == calls' = calls + 1 /\ (ready' # ready \/ scheduled' # scheduled)

\* C19: call_soon, call_later and call_at write to the self-pipe exactly when
\* blocked_in_select is true, and then hand the callback to the scheduler
\* without running a tick; so while the bridge is yielded with work in the
\* ready queue, or with a timer added behind an unbounded wait, a
\* notification is queued or the worker's wait can end at once, whatever its
\* timeout; and, under the fair scheduling, a yielded bridge with a callback
\* in its ready queue leads to a tick that runs the batch, unless the run is
\* ended, its nested loop is asked to exit, or the model's tick budget is
\* used up first.
C19_CallsWakeUp ==
    /\ [][CallStep =>
            /\ ioReady' = (ioReady \/ blocked_in_select)
            /\ pc' = pc /\ depth' = depth /\ queue' = queue
            /\ blocked_in_select' = blocked_in_select]_vars
    /\ []((is_running /\ pc = "exec" /\ blocked_in_select /\ ready # <<>>) =>
            \/ Pending >= 1
            \/ sel_state = "BUSY" /\ ioReady)
    /\ []((is_running /\ pc = "exec" /\ blocked_in_select /\ scheduled > 0
           /\ sel_state = "BUSY" /\ sel_timeout = "none") => ioReady)
    /\ (is_running /\ pc = "exec" /\ blocked_in_select /\ ready # <<>>)
           ~> \/ pc = "batch" /\ todo > 0
              \/ ~is_running
              \/ Nested /\ exit_code # -1
              \/ ticks = MaxTicks

C19_Witness ==
    /\ is_running /\ ~Nested /\ pc = "exec" /\ blocked_in_select /\ ~stopping
    /\ sel_state = "BUSY" /\ sel_timeout = "none" /\ ioReady /\ Pending = 0
    /\ ready = <<"append">> /\ calls = 1

\* C20: run_task runs the first step of the new task inside the scheduling
\* call, which returns to the same place with the handle left in the ready
\* queue in cancelled state; a tick that reaches that handle skips it, so the
\* first step of every task started by run_task has run exactly once, and
\* never in a tick.
C20_EagerFirstStep ==
    /\ [][tasks' = tasks + 1 =>
            /\ steps' = steps + 1
            /\ ready' = Append(ready, "cancelled")
            /\ pc' = pc /\ depth' = depth /\ ticks' = ticks]_vars
    /\ [](steps = tasks)
    /\ [][steps' # steps => tasks' = tasks + 1]_vars
    /\ [][HandleStep("cancelled") =>
            /\ steps' = steps /\ log' = log /\ todo' = todo - 1
            /\ pc' = "batch" /\ exit_code' = exit_code]_vars

C20_Witness ==
    /\ tasks = 1 /\ steps = 1 /\ calls = 1 /\ is_running
    /\ pc = "batch" /\ ticks = 2 /\ todo = 0 /\ ready = <<>> /\ log = <<>>

\* C21: the eager-scheduling flag is scoped to one scheduling call.  It is
\* set only while run_task is executing; no run_task has more than one
\* handle run eagerly; every handle that is run eagerly was scheduled by the
\* create_task of a run_task, so a call_soon made by a slot or by the code of
\* a task's step is deferred; and when run_task leaves, returning or raising
\* (create_task failing before its call_soon, or the eager step raising), the
\* flag is false.
C21_EagerFlagScoped ==
    /\ [](call_soon_eagerly => InFrame("run_task"))
    /\ [](\A i \in 1..Len(frames) :
            /\ frames[i].k = "run_task" => frames[i].t <= 1
            /\ frames[i].k = "call_soon" => frames[i].by = "run_task")
    /\ [][(InFrame("run_task") /\ Len(frames') < Len(frames))
            => ~call_soon_eagerly']_vars

\* run_task, called from a slot, has raised because create_task failed before
\* any call_soon: the exception is on its way out and the flag is false.
C21_Witness ==
    /\ frames = <<>>
    /\ exc
    /\ tasks = 0
    /\ last_call_soon = "none"
    /\ ~call_soon_eagerly

\* C22: eager execution keeps the current-task bookkeeping a stack.  The
\* task that is current when the eager call_soon is made is left before the
\* new task's step runs, so _enter_task never finds another task registered;
\* while a step executes, its task is the current one; and when the eager
\* call_soon ends, by return or by exception, the task it had left is the
\* current one again (none if there was none), at every nesting depth.
C22_CurrentTaskIsAStack ==
    /\ [](~enter_task_error)
    /\ [](InFrame("step") => current_task = Top.t)
    /\ [](InFrame("call_soon") /\ Top.ph = "run" => current_task = 0)
    /\ [][(InFrame("call_soon") /\ Len(frames') < Len(frames))
            => current_task' = Top.t]_vars

\* Task 1 runs from a tick and starts task 2 eagerly; task 2 starts task 3
\* eagerly, and task 3's first step raises: task 2 is current again while the
\* exception passes through its step.
C22_Witness ==
    /\ Len(frames) = 4
    /\ InFrame("step")
    /\ Top.t = 2
    /\ frames[3].t = 1
    /\ current_task = 2
    /\ exc
    /\ tasks = 3

\* C23: select() with timeout 0, or with I/O already ready, or with no
\* notifier installed does not raise AsyncSlotYield, starts no worker and
\* leaves the selector IDLE; with timeout 0 or ready I/O it also returns
\* without blocking.  After any select with timeout 0 the selector is IDLE
\* with the call returned.
C23_SelectSync ==
    /\ [](\A t \in Timeouts :
            (t = "zero" \/ ioReady \/ sel_notifier = 0) => SelectMode(t) # "yield")
    /\ [][\A t \in Timeouts :
            (SelSelect(t) /\ (t = "zero" \/ ioReady \/ sel_notifier = 0))
            => /\ sel_state' = "IDLE"
               /\ sel_out' # "yield"
               /\ waits' = waits
               /\ signals' = signals
               /\ (t = "zero" \/ ioReady) => (sel_call' = "none" /\ sel_out' = "returned")]_vars
    /\ [](sel_op = "select(0)" /\ sel_state # "CLOSED"
            => sel_state = "IDLE" /\ sel_call = "none" /\ sel_out = "returned")

\* A select with timeout 0 has returned on a selector that has a notifier
\* and has had no I/O: nothing yielded, the selector is IDLE.
C23_Witness ==
    /\ sel_op = "select(0)"
    /\ sel_notifier # 0
    /\ sel_state = "IDLE"
    /\ sel_out = "returned"
    /\ waits = 0
    /\ signals = <<>>

\* C24 (as claimed): every wait a yielding select() starts comes to an end.
C24_EveryWaitEnds == (sel_state = "BUSY") ~> (sel_state # "BUSY")

\* C24 (amended): select() with a non-zero or unbounded timeout and a
\* notifier installed, on an IDLE selector with no ready I/O, raises
\* AsyncSlotYield and moves the selector to BUSY.  The selector leaves BUSY
\* for IDLE at most once per such call, and whenever it does a notifier (not
\* None) is signalled exactly once; no notifier is signalled at any other
\* moment.  The wait ends once I/O is ready, the timeout is finite, or a
\* set_notifier call is waiting for it.
C24_YieldThenOneSignal ==
    /\ [][\A t \in Timeouts :
            (SelSelect(t) /\ t # "zero" /\ ~ioReady /\ sel_notifier # 0)
            => (sel_state' = "BUSY" /\ sel_out' = "yield" /\ waits' = waits + 1)]_vars
    /\ [][(sel_state = "BUSY" /\ sel_state' = "IDLE")
            => /\ Len(signals') = Len(signals) + 1
               /\ signals'[Len(signals')] # 0]_vars
    /\ [][signals' # signals => (sel_state = "BUSY" /\ sel_state' # "BUSY")]_vars
    /\ [](sel_state = "IDLE" => Len(signals) = waits)
    /\ [](sel_state = "BUSY" => Len(signals) = waits - 1)
    /\ (sel_state = "BUSY"
          /\ (ioReady \/ sel_timeout = "finite" \/ sel_call = "set_notifier"))
       ~> (sel_state # "BUSY")

\* A select with an unbounded timeout yielded, I/O arrived, and the worker
\* signalled notifier 1 once: the selector is IDLE again.
C24_Witness ==
    /\ sel_op = "select(None)"
    /\ sel_out = "yield"
    /\ sel_state = "IDLE"
    /\ ioReady
    /\ waits = 1
    /\ signals = <<1>>

\* C25: at most one background wait worker is outstanding.  The selector is
\* always IDLE, BUSY or CLOSED; a worker is started only by a select() that
\* yields on an IDLE selector; while one waits (BUSY) the bridge runs no tick
\* and none can start, so no second select() is made, whatever stop(),
\* call_soon() and the other calls do meanwhile; and the bridge installs a
\* notifier (enter) only on a selector that is not BUSY.
C25_AtMostOneWorker ==
    /\ [](sel_state \in {"IDLE", "BUSY", "CLOSED"})
    /\ [](sel_state = "BUSY" => pc \in {"yielded", "exec", "exit_wait"})
    /\ []((pc = "exec" /\ queue # <<>> /\ Head(queue) \in live) => sel_state = "IDLE")
    /\ [][(sel_state' = "BUSY" /\ sel_state # "BUSY")
            => (sel_state = "IDLE" /\ pc' = "yielded" /\ last_select' = "yield")]_vars
    /\ [][(notifier' # notifier /\ notifier' # 0) => sel_state # "BUSY"]_vars

\* While a worker waits, stop() and call_soon() were called (each wrote to
\* the self-pipe): the selector is still BUSY with its one worker, and no
\* notification is queued yet.
C25_Witness ==
    /\ sel_state = "BUSY"
    /\ pc = "exec"
    /\ stop_called
    /\ Len(ready) = 1
    /\ ioReady
    /\ queue = <<>>

\* C26: set_notifier on a BUSY selector wakes the wait and returns only when
\* the selector is IDLE.  __exit__ blocks in set_notifier(None) exactly when
\* the selector is BUSY; while it is blocked the worker's wait can end
\* whatever its timeout and without any I/O; the call returns only on an
\* IDLE selector; and it always returns, whether the worker completed by
\* itself before the call, during it, or only because of the wake-up.
C26_SetNotifierWakesAndWaits ==
    /\ []((pc = "exit_wait" /\ sel_state = "BUSY") => ENABLED WorkerDone)
    /\ [][(pc = "exec" /\ pc' \in {"idle", "exit_wait"})
            => (pc' = "exit_wait" <=> sel_state = "BUSY")]_vars
    /\ [][(pc = "exit_wait" /\ pc' # "exit_wait")
            => (sel_state = "IDLE" /\ pc' = "idle" /\ sel_notifier' = 0)]_vars
    /\ (pc = "exit_wait") ~> (pc = "idle")

\* __exit__ is blocked in set_notifier(None) on a worker whose wait has an
\* unbounded timeout and no I/O to end it.
C26_Witness ==
    /\ pc = "exit_wait"
    /\ sel_state = "BUSY"
    /\ sel_timeout = "none"
    /\ ~ioReady

\* C27 (as claimed): a wait that completes while set_notifier(new) is blocked
\* on it signals the new notifier.
C27_SignalsNewNotifier ==
    [][(sel_call = "set_notifier" /\ sel_state = "BUSY" /\ sel_state' = "IDLE")
         => signals' = Append(signals, sel_new)]_vars

\* C27 (amended): the notifier installed when the wait started stays
\* installed for the whole wait; the wait's completion signals that notifier
\* exactly once, also when a set_notifier(new) call is blocked on it; the
\* blocked call installs the new notifier only when it returns, on an IDLE
\* selector, and signals nothing itself.
C27_SignalsPreviousNotifier ==
    /\ [](sel_state = "BUSY" => sel_notifier = wait_notifier)
    /\ [][(sel_state = "BUSY" /\ sel_state' = "IDLE")
            => signals' = Append(signals, wait_notifier)]_vars
    /\ [][(sel_call = "set_notifier" /\ sel_call' = "none")
            => (sel_state = "IDLE" /\ sel_notifier' = sel_new /\ signals' = signals)]_vars

\* set_notifier(2) is blocked on a wait started under notifier 1; the worker
\* has completed and signalled notifier 1, which is still the installed one.
C27_Witness ==
    /\ sel_call = "set_notifier"
    /\ sel_new = 2
    /\ sel_state = "IDLE"
    /\ sel_notifier = 1
    /\ wait_notifier = 1
    /\ signals = <<1>>

C29_ResultSetOnce ==
    /\ [](set_calls <= 1)
    /\ [](~sig_error)
    /\ [](fut_result # 0 => (fut = "result" /\ fut_result = connect_at + 1))
    /\ [][(emits' # emits /\ fut # "pending")
            => (fut' = fut /\ fut_result' = fut_result)]_vars

\* The second asyncsignal call on the signal: it connected after emission 1,
\* emission 2 gave the future its result, and emission 3 changed nothing.
C29_Witness ==
    /\ awaits = 2
    /\ connect_at = 1
    /\ emits = 3
    /\ fut = "result"
    /\ fut_result = 2
    /\ handler_calls = 1
    /\ set_calls = 1

\* C30: asyncsignal releases the slot on every way out.  The variable slot
\* holds the slot object only while the coroutine is suspended in its await
\* and handler has not run; handler clears it on its first invocation, and
\* the finally clears it when the await ends (result, cancellation, an
\* exception thrown in, a failing connect).  The connection exists only
\* while the slot object and the sender do, so once the await has ended no
\* emission reaches handler; and the connection ends only with the slot
\* object or the sender, never by a disconnect.
C30_SlotReleasedOnEveryExit ==
    /\ [](slot => (aw = "awaiting" /\ handler_calls = 0))
    /\ [](aw \in {"init", "returned", "raised"} => (~slot /\ ~connected))
    /\ [](connected => (slot /\ sender_alive))
    /\ [][handler_calls' > handler_calls => (~slot' /\ ~connected')]_vars
    /\ [][(aw \in {"returned", "raised"} /\ emits' # emits)
            => handler_calls' = handler_calls]_vars
    /\ [][(connected /\ ~connected') => (~slot' \/ ~sender_alive')]_vars

\* The awaiting task was cancelled before any emission and the coroutine has
\* left with CancelledError; the sender, still alive, then emitted, and
\* handler was not called.
C30_Witness ==
    /\ aw = "raised"
    /\ fut = "cancelled"
    /\ sender_alive
    /\ connect_at = 0
    /\ emits = 1
    /\ handler_calls = 0
    /\ ~slot
    /\ ~connected

\* C32: a tick whose batch completed, unless the stop flag is set in nested
\* mode, enqueues exactly one notification on the bridge's notifier as it
\* returns and asks no loop to exit; a tick that stops the nested loop, a
\* tick that yields and a tick whose batch raises enqueue none.
C32_OneRequeuePerCompletedTick ==
    /\ [][(BatchDoneStep /\ ~(stopping /\ Nested))
            => /\ sent' = sent + 1
               /\ queue' = Append(queue, notifier)
               /\ pc' = "exec" /\ depth' = 0
               /\ UNCHANGED exitVars]_vars
    /\ [][(BatchDoneStep /\ stopping /\ Nested)
            => (sent' = sent /\ queue' = queue /\ exit_code' = ExitCodeOnStop)]_vars
    /\ [][(pc = "yielded" /\ pc' # "yielded") => (sent' = sent /\ queue' = queue)]_vars
    /\ [][HandleStep("raise") => (sent' = sent /\ queue' = queue)]_vars

\* An attached run whose first tick called stop(): the stop flag is set, and
\* the first and the second tick each enqueued one notification.
C32_Witness ==
    /\ is_running /\ ~Nested /\ stopping /\ InLog("append_stop")
    /\ pc = "exec" /\ ticks = 2 /\ sent = 3 /\ Pending = 1

\* C33 (as claimed): no lost wake-up.  Whenever the bridge is running, no
\* tick is executing and the Qt loop has not been asked to exit, a
\* notification is pending on the bridge's notifier or the selector's worker
\* is waiting and will signal it.
C33_NoLostWakeup ==
    (is_running /\ pc = "exec" /\ exit_code = -1)
        => (Pending >= 1 \/ sel_state = "BUSY")

\* C33: an attached run after one of its ticks raised: the bridge is running,
\* nothing is pending, no worker waits, and the callback a later call_soon
\* put in the ready queue has no tick to run it.
C33_StalledAfterRaise ==
    /\ is_running /\ ~Nested /\ pc = "exec" /\ exit_code = -1
    /\ InLog("raise") /\ result = "TickRaised"
    /\ Pending = 0 /\ sel_state = "IDLE" /\ ~blocked_in_select
    /\ ready = <<"append">>
    /\ ~ENABLED Dispatch

\* C34: at most one notification is pending on the bridge's notifier at any
\* time of a run, and the posted-event queue never holds two notifications
\* of one notifier (a stale one of a closed notifier may sit beside the
\* current one).
C34_SingleSlotMailbox ==
    /\ is_running => Pending <= 1
    /\ \A n \in 1..MaxRuns : Count(queue, n) <= 1
    /\ Len(queue) <= MaxRuns

\* A yielded run in which stop() and call_soon() forced wake-ups (I/O on the
\* self-pipe) and the worker then completed: one notification is pending.
C34_Witness ==
    /\ is_running /\ pc = "exec" /\ blocked_in_select
    /\ stop_called /\ Len(ready) = 1 /\ ioReady
    /\ sel_state = "IDLE" /\ Pending = 1 /\ Len(queue) = 1

\* C35: the two assertions at the start of the tick handler hold.  A tick
\* begins only when the bridge is not closed and is running, between its
\* __enter__ and its __exit__, by a notification of its live notifier; a
\* closed bridge is never running; and while a tick executes the bridge is
\* open and running.
C35_TickAssertionsHold ==
    /\ [][ticks' = ticks + 1
            => /\ ~closed /\ is_running /\ pc = "exec"
               /\ notifier \in live /\ Head(queue) = notifier]_vars
    /\ [](closed => ~is_running)
    /\ [](depth > 0 => (~closed /\ is_running /\ pc \in {"batch", "yielded"}))

\* The first tick of a second run is executing; the first run was ended while
\* yielded, so a notification of its closed notifier had been queued too.
C35_Witness ==
    /\ depth = 1 /\ pc = "batch" /\ notifier = 2 /\ ticks = 1
    /\ is_running /\ ~closed /\ queue = <<>> /\ live = {2}
    /\ blocked_in_select = FALSE /\ sent = 1

\* C36 (as claimed): whenever the bridge is not running and no run_forever
\* call is in progress, no tick error is stored in __run_once_error.
C36_NoStoredErrorWhenNotRunning ==
    (pc = "idle" /\ ~is_running) => run_once_error = 0

\* C36: an attached run has ended and the error of one of its ticks is still
\* stored in the bridge, which is not running.
C36_ErrorSurvivesAttachedExit ==
    /\ pc = "idle" /\ ~is_running /\ notifier = 0 /\ sel_notifier = 0
    /\ run_once_error = 1 /\ result = "TickRaised" /\ InLog("raise")
    /\ exit_by = "none" /\ depth = 0

\* C37: the selector is BUSY only while the bridge is running, with the
\* notifier of that run installed.  __enter__ installs the notifier on an
\* IDLE selector; once __exit__ has returned the selector is not BUSY and has
\* no notifier; the run does not change while a worker is waiting, and a
\* worker that completes leaves the selector IDLE and signals the notifier of
\* the run that started it.
C37_BusyOnlyWhileRunning ==
    /\ [](sel_state = "BUSY"
            => /\ is_running /\ notifier # 0
               /\ sel_notifier = notifier /\ notifier \in live)
    /\ []((pc = "idle" /\ ~is_running) => (sel_state # "BUSY" /\ sel_notifier = 0))
    /\ [][(notifier = 0 /\ notifier' # 0)
            => (sel_state = "IDLE" /\ sel_state' = "IDLE" /\ sel_notifier' = notifier')]_vars
    /\ [][sel_state = "BUSY" => notifier' = notifier]_vars
    /\ [][(sel_state = "BUSY" /\ sel_state' # "BUSY")
            => /\ sel_state' = "IDLE"
               /\ queue' = Post(queue, notifier)
               /\ live' = live]_vars

\* __exit__ of a second run found the selector BUSY and is waiting in
\* set_notifier(None); the worker has completed and signalled the notifier of
\* that run, which is still installed.
C37_Witness ==
    /\ pc = "exit_wait" /\ sel_state = "IDLE" /\ is_running
    /\ notifier = 2 /\ sel_notifier = 2 /\ live = {2}
    /\ blocked_in_select /\ Count(queue, 2) = 1

\* C38: the eager flag is cleared before the eager callback starts.  The flag
\* is false while call_soon's eager branch is running the handle and while
\* any step executes; a call_soon made by the code of a step, eagerly started
\* or not, is deferred and runs nothing; the only call a step can nest is
\* run_task, and a handle is run eagerly only for the call_soon of a
\* run_task, which clears the flag as it takes the eager branch.
C38_EagerCallbackDefers ==
    /\ []((InFrame("call_soon") \/ InFrame("step")) => ~call_soon_eagerly)
    /\ [][(InFrame("step") /\ last_call_soon' # last_call_soon)
            => (last_call_soon' = "deferred" /\ frames' = frames)]_vars
    /\ [][(InFrame("step") /\ Len(frames') > Len(frames))
            => (frames'[Len(frames')].k = "run_task" /\ call_soon_eagerly')]_vars
    /\ [][(Len(frames') > Len(frames) /\ frames'[Len(frames')].k = "call_soon")
            => /\ InFrame("run_task") /\ call_soon_eagerly
               /\ ~call_soon_eagerly' /\ last_call_soon' = "eager"]_vars

\* run_task, called from a slot, is running its task's first step eagerly, and
\* the step has called call_soon: the call was deferred.
C38_Witness ==
    /\ Len(frames) = 3
    /\ frames[1].k = "run_task" /\ frames[1].by = "slot"
    /\ frames[2].k = "call_soon"
    /\ InFrame("step") /\ Top.by = "call_soon"
    /\ last_call_soon = "deferred"
    /\ ~call_soon_eagerly /\ ~exc

\* C39: handler invoked when the future is already done (the awaiting task
\* was cancelled and has not resumed yet) sets no result and raises no
\* error, and still clears the slot reference, which ends the connection;
\* and within one asyncsignal call a future that is done never changes its
\* state or its result again.
C39_HandlerOnDoneFuture ==
    /\ [][(handler_calls' > handler_calls /\ fut # "pending")
            => /\ fut' = fut /\ fut_result' = fut_result
               /\ set_calls' = set_calls /\ ~sig_error'
               /\ ~slot' /\ ~connected']_vars
    /\ [][(fut # "pending" /\ awaits' = awaits)
            => (fut' = fut /\ fut_result' = fut_result)]_vars
    /\ [](fut = "cancelled" => (fut_result = 0 /\ set_calls = 0))

\* The awaiting task was cancelled and, before the coroutine resumed, the
\* sender emitted: handler ran on the cancelled future, set nothing and
\* released the slot.
C39_Witness ==
    /\ aw = "awaiting"
    /\ fut = "cancelled"
    /\ emits = 1
    /\ handler_calls = 1
    /\ set_calls = 0
    /\ fut_result = 0
    /\ ~sig_error
    /\ ~slot
    /\ ~connected
    /\ sender_alive

\* ------------------------------------------------------------- the mock selector
\* The bridge as the test suite of BaseEventLoop runs it: _selector is a mock
\* whose select() returns () at once, so no tick yields.  Beside it, the
\* scheduler's own run_forever (while True: _run_once(); if _stopping: break)
\* is given the same handles.  Both start from the handles call_soon queued,
\* and the stop() made, before run_forever.
mockRestVars == <<pc, depth, closed, stopping, thread_id, running_loop,
                  qt_event_loop, notifier, blocked_in_select, run_once_error,
                  ready, scheduled, todo, live, nextId, queue, sel_state,
                  sel_notifier, sel_timeout, ioReady, exit_code, exit_by, result,
                  sent, ticks, log, calls, last_select, stop_called,
                  stop_at_enter, error_raised, other_running, enter_error,
                  tasks, steps, eagerVars, selCallVars, sigVars>>

\* The callbacks of the handles: append to a list; append and stop();
\* call_soon another handle (one that appends, or one that stops).
MockCallbacks == {"append", "append_stop", "spawn_append", "spawn_stop"}

\* The _ready queue after the callback ran, rdy being the queue without its
\* own handle: call_soon appends the new handle.
CallbackReady(cb, rdy) ==
    IF cb = "spawn_append" THEN Append(rdy, "append")
    ELSE IF cb = "spawn_stop" THEN Append(rdy, "append_stop")
    ELSE rdy

\* Whether the callback calls stop().
CallbackStops(cb) == cb = "append_stop"

IsPrefix(a, b) == Len(a) <= Len(b) /\ SubSeq(b, 1, Len(a)) = a

\* The else branch of the handler under run_forever (lines 238-242): whether
\* the tick exits the nested loop.
MockStopsLoop_Never(s) == FALSE
MockStopsLoop(s) == s

\* call_soon before run_forever: the same handle for both loops.
MockCallSoon(cb) ==
    /\ mk_pc = "idle"
    /\ aio_pc = "idle"
    /\ Len(mk_ready) < MaxProg
    /\ mk_ready' = Append(mk_ready, cb)
    /\ aio_ready' = Append(aio_ready, cb)
    /\ UNCHANGED <<mockRestVars, mk_pc, mk_todo, mk_log, mk_ticks, mk_stopping,
                   mk_posted, aio_pc, aio_todo, aio_log, aio_iter, aio_stopping>>

\* stop() before run_forever, on both loops.
MockStop ==
    /\ mk_pc = "idle"
    /\ aio_pc = "idle"
    /\ ~mk_stopping
    /\ mk_stopping' = TRUE
    /\ aio_stopping' = TRUE
    /\ UNCHANGED <<mockRestVars, mk_pc, mk_ready, mk_todo, mk_log, mk_ticks,
                   mk_posted, aio_pc, aio_ready, aio_todo, aio_log, aio_iter>>

\* run_forever of the bridge up to exec(): __enter__ posts the first
\* notification (line 191).
MockRunForever ==
    /\ mk_pc = "idle"
    /\ mk_pc' = "exec"
    /\ mk_posted' = 1
    /\ UNCHANGED <<mockRestVars, mk_ready, mk_todo, mk_log, mk_ticks, mk_stopping,
                   aioVars>>

\* The nested QEventLoop dispatches a notification: the handler calls
\* _run_once (line 225), whose select() returns at once; the batch is the
\* handles that are ready now.
MockDispatch ==
    /\ mk_pc = "exec"
    /\ mk_posted > 0
    /\ mk_ticks < MaxBatches
    /\ mk_posted' = mk_posted - 1
    /\ mk_ticks' = mk_ticks + 1
    /\ mk_todo' = Len(mk_ready)
    /\ mk_pc' = "batch"
    /\ UNCHANGED <<mockRestVars, mk_ready, mk_log, mk_stopping, aioVars>>

\* One handle of the batch runs.
MockRunCallback ==
    /\ mk_pc = "batch"
    /\ mk_todo > 0
    /\ LET cb == Head(mk_ready) IN
       /\ mk_log' = Append(mk_log, <<mk_ticks, cb>>)
       /\ mk_ready' = CallbackReady(cb, Tail(mk_ready))
       /\ mk_stopping' = (mk_stopping \/ CallbackStops(cb))
    /\ mk_todo' = mk_todo - 1
    /\ UNCHANGED <<mockRestVars, mk_pc, mk_ticks, mk_posted, aioVars>>

\* _run_once returned (lines 236-248): exit(0) if _stopping, else notify().
MockTickEnd ==
    /\ mk_pc = "batch"
    /\ mk_todo = 0
    /\ IF MockStopsLoop(mk_stopping)
       THEN /\ mk_pc' = "exited"
            /\ UNCHANGED mk_posted
       ELSE /\ mk_pc' = "exec"
            /\ mk_posted' = mk_posted + 1
    /\ UNCHANGED <<mockRestVars, mk_ready, mk_todo, mk_log, mk_ticks, mk_stopping,
                   aioVars>>

\* exec() returns 0 and run_forever leaves through __exit__, which clears
\* _stopping (line 206).
MockExecReturn ==
    /\ mk_pc = "exited"
    /\ mk_pc' = "done"
    /\ mk_stopping' = FALSE
    /\ UNCHANGED <<mockRestVars, mk_ready, mk_todo, mk_log, mk_ticks, mk_posted,
                   aioVars>>

\* BaseEventLoop.run_forever is called.
AioRunForever ==
    /\ aio_pc = "idle"
    /\ aio_pc' = "loop"
    /\ UNCHANGED <<mockRestVars, mockVars, aio_ready, aio_todo, aio_log, aio_iter,
                   aio_stopping>>

\* The top of its while loop: _run_once up to the return of select().
AioRunOnce ==
    /\ aio_pc = "loop"
    /\ aio_iter < MaxBatches
    /\ aio_iter' = aio_iter + 1
    /\ aio_todo' = Len(aio_ready)
    /\ aio_pc' = "batch"
    /\ UNCHANGED <<mockRestVars, mockVars, aio_ready, aio_log, aio_stopping>>

\* One handle of its batch runs.
AioRunCallback ==
    /\ aio_pc = "batch"
    /\ aio_todo > 0
    /\ LET cb == Head(aio_ready) IN
       /\ aio_log' = Append(aio_log, <<aio_iter, cb>>)
       /\ aio_ready' = CallbackReady(cb, Tail(aio_ready))
       /\ aio_stopping' = (aio_stopping \/ CallbackStops(cb))
    /\ aio_todo' = aio_todo - 1
    /\ UNCHANGED <<mockRestVars, mockVars, aio_pc, aio_iter>>

\* _run_once returned: "if self._stopping: break", and the finally of
\* run_forever clears _stopping.
AioIterEnd ==
    /\ aio_pc = "batch"
    /\ aio_todo = 0
    /\ IF aio_stopping
       THEN /\ aio_pc' = "done"
            /\ aio_stopping' = FALSE
       ELSE /\ aio_pc' = "loop"
            /\ UNCHANGED aio_stopping
    /\ UNCHANGED <<mockRestVars, mockVars, aio_ready, aio_todo, aio_log, aio_iter>>

MockNext ==
    \/ \E cb \in MockCallbacks : MockCallSoon(cb)
    \/ MockStop
    \/ MockRunForever
    \/ MockDispatch
    \/ MockRunCallback
    \/ MockTickEnd
    \/ MockExecReturn
    \/ AioRunForever
    \/ AioRunOnce
    \/ AioRunCallback
    \/ AioIterEnd

MockSpec == Init /\ [][MockNext]_vars

\* C31: with the mock selector a nested run_forever of the bridge does what
\* the scheduler's own run_forever does on the same handles.  Each tick runs
\* one batch, the handles that were ready when it began, and leaves the
\* batch only when all of them ran; the callbacks run in the same order and
\* in the same iteration in both loops (one log is always a prefix of the
\* other); neither loop runs a callback or starts an iteration after the
\* other has stopped; and when both have returned they ran the same
\* callbacks in the same number of iterations and left the same handles and
\* a cleared stop flag.
C31_MockRunForeverEquivalent ==
    /\ [](IsPrefix(mk_log, aio_log) \/ IsPrefix(aio_log, mk_log))
    /\ [][mk_ticks' # mk_ticks
            => (mk_ticks' = mk_ticks + 1 /\ mk_todo' = Len(mk_ready))]_vars
    /\ [][(mk_pc = "batch" /\ mk_pc' # "batch") => mk_todo = 0]_vars
    /\ [](aio_pc = "done"
            => (Len(mk_log) <= Len(aio_log) /\ mk_ticks <= aio_iter))
    /\ [](mk_pc \in {"exited", "done"}
            => (Len(aio_log) <= Len(mk_log) /\ aio_iter <= mk_ticks))
    /\ []((mk_pc = "done" /\ aio_pc = "done")
            => /\ mk_log = aio_log /\ mk_ticks = aio_iter
               /\ mk_ready = aio_ready
               /\ ~mk_stopping /\ ~aio_stopping)

\* Both loops were given a handle that schedules a stopping handle and one
\* that schedules an appending handle: both ran the two in the first
\* iteration, the stopping handle and then the appending one in the second,
\* and returned after it.
C31_Witness ==
    /\ mk_pc = "done"
    /\ aio_pc = "done"
    /\ mk_ticks = 2
    /\ mk_log = << <<1, "spawn_stop">>, <<1, "spawn_append">>,
                   <<2, "append_stop">>, <<2, "append">> >>
    /\ aio_log = mk_log
    /\ mk_ready = <<>>
====
